---- MODULE Spec2Model ----
(***************************************************************************)
(* Model of the PIX BR Code generator (src/brazilian_pix.py).              *)
(*                                                                         *)
(* A Python str is a sequence of Unicode code points (naturals); a bytes   *)
(* object is a sequence of naturals in 0..255.  len() of a str counts code *)
(* points, str.encode('utf-8') turns each code point into 1 to 4 bytes.    *)
(***************************************************************************)
EXTENDS Integers, Sequences, FiniteSets, TLC

\* ------------------------------------------------------------------------
\* Bounds of the model
\* ------------------------------------------------------------------------

\* Longest string over CrcAlphabet handed to the checksum routine.
MaxCrcLen == 3

\* ------------------------------------------------------------------------
\* Text helpers
\* ------------------------------------------------------------------------

\* The string of n copies of the character c.
Rep(c, n) == [i \in 1..n |-> c]

\* s[:n] of Python: the first n characters, the whole string when shorter.
Take(s, n) == SubSeq(s, 1, IF Len(s) < n THEN Len(s) ELSE n)

\* The two-character tag literal "dd" for a number 0..99.
Tag(n) == <<48 + (n \div 10), 48 + (n % 10)>>

\* Decimal digits of a natural, most significant first ("0" for 0).
RECURSIVE DecDigits(_)
DecDigits(n) == IF n < 10 THEN <<48 + n>>
                ELSE DecDigits(n \div 10) \o <<48 + (n % 10)>>

\* Hexadecimal digits of a natural, upper case, most significant first.
HexChar(d) == IF d < 10 THEN 48 + d ELSE 55 + d

RECURSIVE HexDigits(_)
HexDigits(n) == IF n < 16 THEN <<HexChar(n)>>
                ELSE HexDigits(n \div 16) \o <<HexChar(n % 16)>>

\* Left padding with "0" up to a minimum width: the 0w of a format spec pads,
\* it never cuts a longer number.
ZeroPad(digits, width) ==
    IF Len(digits) >= width THEN digits
    ELSE Rep(48, width - Len(digits)) \o digits

\* f"{n:02d}"
Format02d(n) == ZeroPad(DecDigits(n), 2)

\* f"{n:04X}"
Format04X(n) == ZeroPad(HexDigits(n), 4)

\* UTF-8 encoding of one code point.
Utf8Char(c) ==
    IF c < 128 THEN <<c>>
    ELSE IF c < 2048 THEN <<192 + (c \div 64), 128 + (c % 64)>>
    ELSE IF c < 65536 THEN
        <<224 + (c \div 4096), 128 + ((c \div 64) % 64), 128 + (c % 64)>>
    ELSE <<240 + (c \div 262144), 128 + ((c \div 4096) % 64),
           128 + ((c \div 64) % 64), 128 + (c % 64)>>

\* data.encode('utf-8')
RECURSIVE EncodeUtf8(_)
EncodeUtf8(s) ==
    IF Len(s) = 0 THEN <<>>
    ELSE IF Len(s) = 1 THEN Utf8Char(s[1])
    ELSE EncodeUtf8(SubSeq(s, 1, Len(s) \div 2))
         \o EncodeUtf8(SubSeq(s, (Len(s) \div 2) + 1, Len(s)))

\* ------------------------------------------------------------------------
\* Bit arithmetic on naturals
\* ------------------------------------------------------------------------

\* a ^ b
RECURSIVE Xor(_, _)
Xor(a, b) == IF a = 0 THEN b
             ELSE IF b = 0 THEN a
             ELSE ((a + b) % 2) + 2 * Xor(a \div 2, b \div 2)

\* ------------------------------------------------------------------------
\* _calculate_crc16_ccitt
\* ------------------------------------------------------------------------

\* crc = 0xFFFF
CrcInit == 65535

\* 0x1021
CrcPoly == 4129

\* The byte folded into the low half of the register: the "<< 8" forgotten.
CrcXorByteLow(reg, byte) == Xor(reg, byte)

\* crc ^= byte << 8
CrcXorByte(reg, byte) == Xor(reg, byte * 256)

\* The shift without the polynomial: the "if crc & 0x8000" branch lost.
CrcShiftNoPoly(reg) == reg * 2

\* if crc & 0x8000: crc = (crc << 1) ^ 0x1021  else: crc <<= 1
CrcShift(reg) ==
    IF (reg \div 32768) % 2 = 1 THEN Xor(reg * 2, CrcPoly) ELSE reg * 2

\* The register left as wide as the shift made it.
CrcNoMask(reg) == reg

\* crc &= 0xFFFF
CrcMask(reg) == reg % 65536

\* One pass of the inner loop body, and n passes in a row.
CrcStep(reg) == CrcMask(CrcShift(reg))

RECURSIVE CrcSteps(_, _)
CrcSteps(reg, n) == IF n = 0 THEN reg ELSE CrcSteps(CrcStep(reg), n - 1)

\* The eight passes made for one byte, after it is folded into the register.
CrcByte(reg, byte) == CrcSteps(CrcXorByte(reg, byte), 8)

\* The outer loop over bytes[lo..hi], in order.  The run of bytes is handled
\* as its first half followed by its second half, which is the same left to
\* right pass over the bytes with a recursion only logarithmically deep.
\* (The register is never negative: testing it makes TLC reduce the register
\* to a number before it goes on, instead of nesting unevaluated passes.)
RECURSIVE CrcBytes(_, _, _, _)
CrcBytes(reg, bytes, lo, hi) ==
    IF lo > hi \/ reg < 0 THEN reg
    ELSE IF lo = hi THEN CrcByte(reg, bytes[lo])
    ELSE CrcBytes(CrcBytes(reg, bytes, lo, (lo + hi) \div 2),
                  bytes, ((lo + hi) \div 2) + 1, hi)

\* _calculate_crc16_ccitt(data)
CrcOf(bytes) == CrcBytes(CrcInit, bytes, 1, Len(bytes))

calculate_crc16_ccitt(str) == Format04X(CrcOf(EncodeUtf8(str)))

\* ------------------------------------------------------------------------
\* String literals of the source
\* ------------------------------------------------------------------------

\* "br.gov.bcb.pix"
PixGui == <<98, 114, 46, 103, 111, 118, 46, 98, 99, 98, 46, 112, 105, 120>>

\* "0000"
MerchantCategoryCode == <<48, 48, 48, 48>>

\* "6304"
CrcHeader == <<54, 51, 48, 52>>

\* "REC"
TransactionIdPrefix == <<82, 69, 67>>

\* description[:25], recipient_name[:25], transaction_id[:25]
TextLimit == 25

\* self.merchant_city[:15]
CityLimit == 15

\* ------------------------------------------------------------------------
\* State
\* ------------------------------------------------------------------------

VARIABLES
    \* the generator object's attributes, set by __init__
    merchant_name, merchant_city, currency_code, country_code,
    \* one call of generate_pix_code: where it is, its arguments, the
    \* transaction id after lines 60-61, and the string it returned
    pc, args, transaction_id, pix_code,
    \* one call of _calculate_crc16_ccitt, statement by statement: where it
    \* is, its argument, the index of the next byte, the passes of the inner
    \* loop made for the current byte, the register, and the returned text
    crc_pc, data, byte_index, shift_count, crc, crc_text,
    \* the calls of generate_pix_code made so far on one generator, oldest
    \* first: the arguments, the transaction id after lines 60-61 and the
    \* returned string of each
    calls,
    \* concurrent calls of generate_pix_code on one generator, one per thread:
    \* where each is, the index of the next top-level field it appends, its
    \* local pix_code and its local crc
    th_pc, th_next, th_buf, th_crc,
    \* the web application: session['customer_data'] (empty, or one record),
    \* where the /generate-pix request is, what the request and the services
    \* it calls supply, the CPF lookups and gateway calls it has made, and
    \* the response it sent
    session, app_pc, req, cpf_lookups, gateway_calls, response, page,
    \* one call of NewPixAPI.create_charge: where it is, the order id it drew
    \* and what the gateway answered, and what it returned or raised
    charge_pc, charge_req, charge_result,
    \* one call of a method of MediusPagAPI: where it is, the method, its
    \* arguments and what the gateway answered, what it returned or that it
    \* raised, and the HTTP requests it sent
    medius_pc, medius_call, medius_result, http_requests

genVars == <<merchant_name, merchant_city, currency_code, country_code,
             pc, args, transaction_id, pix_code>>

crcVars == <<crc_pc, data, byte_index, shift_count, crc, crc_text>>

repeatVars == <<calls>>

concVars == <<th_pc, th_next, th_buf, th_crc>>

appVars ==
    <<session, app_pc, req, cpf_lookups, gateway_calls, response, page>>

chargeVars == <<charge_pc, charge_req, charge_result>>

mediusVars == <<medius_pc, medius_call, medius_result, http_requests>>

vars ==
    <<genVars, crcVars, repeatVars, concVars, appVars, chargeVars,
      mediusVars>>

\* ------------------------------------------------------------------------
\* _format_emv_field and the fields generate_pix_code feeds to it
\* ------------------------------------------------------------------------

Field(tag, value) == [tag |-> tag, value |-> value]

\* length = f"{len(value):02d}" ; return f"{tag}{length}{value}"
format_emv_field(tag, value) == tag \o Format02d(Len(value)) \o value

\* The concatenation of the formatted fields, in order (pix_code += ...).
RECURSIVE FormatFields(_)
FormatFields(fs) ==
    IF fs = <<>> THEN <<>>
    ELSE format_emv_field(Head(fs).tag, Head(fs).value) \o FormatFields(Tail(fs))

\* merchant_info with the key cut to 25 characters like the other texts.
MerchantInfoFieldsKeyTruncated(recipient_key, description) ==
    <<Field(Tag(0), PixGui), Field(Tag(1), Take(recipient_key, TextLimit))>>
    \o (IF description # <<>>
        THEN <<Field(Tag(2), Take(description, TextLimit))>>
        ELSE <<>>)

\* The fields appended to merchant_info.
MerchantInfoFields(recipient_key, description) ==
    <<Field(Tag(0), PixGui), Field(Tag(1), recipient_key)>>
    \o (IF description # <<>>
        THEN <<Field(Tag(2), Take(description, TextLimit))>>
        ELSE <<>>)

\* additional_data with the transaction id as it came.
AdditionalDataFieldsWhole(tid) == <<Field(Tag(5), tid)>>

\* The fields appended to additional_data.
AdditionalDataFields(tid) == <<Field(Tag(5), Take(tid, TextLimit))>>

\* f"{amount:.2f}" for an amount given in thousandths of a real: rounding to
\* the nearest cent, a tie going to the even cent.  (Ties that a binary
\* float cannot hold exactly, such as 0.005, are outside the model's
\* amounts: Amounts holds .125-style ties only.)
AmountCents(amount) ==
    LET q == amount \div 10
        r == amount % 10
    IN  IF r < 5 THEN q
        ELSE IF r > 5 THEN q + 1
        ELSE IF q % 2 = 0 THEN q ELSE q + 1

FormatAmount(amount) ==
    LET cents == AmountCents(amount)
    IN  DecDigits(cents \div 100) \o <<46>> \o ZeroPad(DecDigits(cents % 100), 2)

\* The amount field guarded by "amount >= 0" instead of "amount > 0".
AmountFieldsNonNegative(amount) ==
    IF amount >= 0 THEN <<Field(Tag(54), FormatAmount(amount))>> ELSE <<>>

\* if amount > 0: pix_code += self._format_emv_field("54", amount_str)
AmountFields(amount) ==
    IF amount > 0 THEN <<Field(Tag(54), FormatAmount(amount))>> ELSE <<>>

\* The top-level fields with the merchant's name in place of the city under
\* tag 60.
TopFieldsNameAsCity(self, amount, recipient_key, recipient_name, tid, description) ==
    <<Field(Tag(0), Tag(1)),
      Field(Tag(1), Tag(12)),
      Field(Tag(26), FormatFields(MerchantInfoFields(recipient_key, description))),
      Field(Tag(52), MerchantCategoryCode),
      Field(Tag(53), self.currency_code)>>
    \o AmountFields(amount)
    \o <<Field(Tag(58), self.country_code),
         Field(Tag(59), Take(recipient_name, TextLimit)),
         Field(Tag(60), Take(self.merchant_name, CityLimit)),
         Field(Tag(62), FormatFields(AdditionalDataFields(tid)))>>

\* The fields appended to pix_code before the checksum header, in order.
TopFields(self, amount, recipient_key, recipient_name, tid, description) ==
    <<Field(Tag(0), Tag(1)),
      Field(Tag(1), Tag(12)),
      Field(Tag(26), FormatFields(MerchantInfoFields(recipient_key, description))),
      Field(Tag(52), MerchantCategoryCode),
      Field(Tag(53), self.currency_code)>>
    \o AmountFields(amount)
    \o <<Field(Tag(58), self.country_code),
         Field(Tag(59), Take(recipient_name, TextLimit)),
         Field(Tag(60), Take(self.merchant_city, CityLimit)),
         Field(Tag(62), FormatFields(AdditionalDataFields(tid)))>>

\* The checksum taken before "6304" is appended instead of after.
AppendCrcBeforeHeader(payload) ==
    payload \o CrcHeader \o calculate_crc16_ccitt(payload)

\* pix_code += "6304" ; crc = self._calculate_crc16_ccitt(pix_code) ;
\* pix_code += crc
AppendCrc(payload) ==
    (payload \o CrcHeader) \o calculate_crc16_ccitt(payload \o CrcHeader)

\* The string kept on the generator between calls: every call appends to
\* what the call before it returned.
generate_pix_code_on_instance(self, amount, recipient_key, recipient_name, tid, description) ==
    (IF calls = <<>> THEN <<>> ELSE calls[Len(calls)].pix_code)
    \o (FormatFields(TopFields(self, amount, recipient_key, recipient_name,
                               tid, description)) \o CrcHeader)
    \o calculate_crc16_ccitt(FormatFields(
           TopFields(self, amount, recipient_key, recipient_name, tid,
                     description)) \o CrcHeader)

\* generate_pix_code, from the effective transaction id on.
generate_pix_code(self, amount, recipient_key, recipient_name, tid, description) ==
    AppendCrc(FormatFields(
        TopFields(self, amount, recipient_key, recipient_name, tid, description)))

\* _generate_transaction_id: "REC" + %Y%m%d%H%M%S of the clock + 8 upper-case
\* hex digits of a fresh uuid4.
generate_transaction_id(timestamp, random_part) ==
    TransactionIdPrefix \o timestamp \o random_part

\* ------------------------------------------------------------------------
\* Inputs
\* ------------------------------------------------------------------------

\* Length of the long PIX key, one more than the longest key that still
\* leaves merchant_info at 99 characters without a description.
LongKeyLen == 78

\* Length of the long recipient name and of the long transaction id.
LongNameLen == 40

LongIdLen == 30

\* Amounts in thousandths: -1.00, 0, 0.001, 0.125, 138.42
Amounts == {-1000, 0, 1, 125, 138420}

\* "gerarpagamento@gmail.com" and a key of LongKeyLen letters k
RecipientKeys ==
    {<<103, 101, 114, 97, 114, 112, 97, 103, 97, 109, 101, 110, 116, 111, 64,
       103, 109, 97, 105, 108, 46, 99, 111, 109>>,
     Rep(107, LongKeyLen)}

\* "RECEITA FEDERAL", "JOSÉ DA CONCEIÇÃO", a name of LongNameLen letters N
\* and a name of the same length that starts with É
RecipientNames ==
    {<<82, 69, 67, 69, 73, 84, 65, 32, 70, 69, 68, 69, 82, 65, 76>>,
     <<74, 79, 83, 201, 32, 68, 65, 32, 67, 79, 78, 67, 69, 73, 199, 195, 79>>,
     Rep(78, LongNameLen),
     <<201>> \o Rep(78, LongNameLen - 1)}

\* None or "", "REC202501010000001234" and an id of LongIdLen letters T
TransactionIds ==
    {<<>>,
     <<82, 69, 67, 50, 48, 50, 53, 48, 49, 48, 49, 48, 48, 48, 48, 48, 48, 49,
       50, 51, 52>>,
     Rep(84, LongIdLen)}

\* "" and "Regularização Receita Federal"
Descriptions ==
    {<<>>,
     <<82, 101, 103, 117, 108, 97, 114, 105, 122, 97, 231, 227, 111, 32, 82,
       101, 99, 101, 105, 116, 97, 32, 70, 101, 100, 101, 114, 97, 108>>}

\* Two readings of the clock ("20250101000000", "20261103172800") and two
\* draws of uuid4().hex[:8].upper() ("1A2B3C4D", "FFFFFFFF").
Timestamps ==
    {<<50, 48, 50, 53, 48, 49, 48, 49, 48, 48, 48, 48, 48, 48>>,
     <<50, 48, 50, 54, 49, 49, 48, 51, 49, 55, 50, 56, 48, 48>>}

RandomParts ==
    {<<49, 65, 50, 66, 51, 67, 52, 68>>, <<70, 70, 70, 70, 70, 70, 70, 70>>}

\* Characters of the checksum inputs: "1", e-acute (2 bytes in UTF-8), the
\* euro sign (3 bytes) and U+1F600 (4 bytes).
CrcAlphabet == {49, 233, 8364, 128512}

\* "123456789"
CheckString == <<49, 50, 51, 52, 53, 54, 55, 56, 57>>

CrcInputs ==
    UNION {[1..k -> CrcAlphabet] : k \in 0..MaxCrcLen} \cup {CheckString}

\* ------------------------------------------------------------------------
\* The generator
\* ------------------------------------------------------------------------

Self == [merchant_name |-> merchant_name, merchant_city |-> merchant_city,
         currency_code |-> currency_code, country_code |-> country_code]

NoArgs == [amount |-> 0, recipient_key |-> <<>>, recipient_name |-> <<>>,
           transaction_id |-> <<>>, description |-> <<>>]

\* __init__
InitGenerator ==
    /\ merchant_name = <<82, 69, 67, 69, 73, 84, 65, 32, 70, 69, 68, 69, 82, 65, 76>>
    /\ merchant_city = <<66, 82, 65, 83, 73, 76, 73, 65>>
    /\ currency_code = <<57, 56, 54>>
    /\ country_code = <<66, 82>>
    /\ pc = "idle"
    /\ args = NoArgs
    /\ transaction_id = <<>>
    /\ pix_code = <<>>

\* No call of _calculate_crc16_ccitt under way.
InitCrc ==
    /\ crc_pc = "idle"
    /\ data = <<>>
    /\ byte_index = 0
    /\ shift_count = 0
    /\ crc = 0
    /\ crc_text = <<>>

\* Number of threads calling generate_pix_code at the same time.
NumThreads == 2

Threads == 1..NumThreads

\* No thread has entered generate_pix_code yet.
InitConc ==
    /\ th_pc = [t \in Threads |-> "idle"]
    /\ th_next = [t \in Threads |-> 0]
    /\ th_buf = [t \in Threads |-> <<>>]
    /\ th_crc = [t \in Threads |-> <<>>]

\* No call logged yet.
InitRepeat == calls = <<>>

\* One call of generate_pix_code, from entry to return.
GeneratePixCode ==
    /\ pc = "idle"
    /\ \E amount \in Amounts, recipient_key \in RecipientKeys,
          recipient_name \in RecipientNames, tid \in TransactionIds,
          description \in Descriptions :
        /\ args' = [amount |-> amount, recipient_key |-> recipient_key,
                    recipient_name |-> recipient_name, transaction_id |-> tid,
                    description |-> description]
        /\ \/ /\ tid # <<>>
              /\ transaction_id' = tid
           \/ /\ tid = <<>>
              /\ \E timestamp \in Timestamps, random_part \in RandomParts :
                    transaction_id' = generate_transaction_id(timestamp, random_part)
        /\ pix_code' = generate_pix_code(Self, amount, recipient_key,
                                         recipient_name, transaction_id', description)
    /\ pc' = "returned"
    /\ UNCHANGED <<merchant_name, merchant_city, currency_code, country_code>>
    /\ UNCHANGED <<crcVars, repeatVars, concVars, appVars, chargeVars, mediusVars>>

\* The caller has taken the returned string; the call's locals are gone.
Finish ==
    /\ pc = "returned"
    /\ pc' = "idle"
    /\ args' = NoArgs
    /\ transaction_id' = <<>>
    /\ pix_code' = <<>>
    /\ UNCHANGED <<merchant_name, merchant_city, currency_code, country_code>>
    /\ UNCHANGED <<crcVars, repeatVars, concVars, appVars, chargeVars, mediusVars>>

Next == GeneratePixCode \/ Finish

\* ------------------------------------------------------------------------
\* _calculate_crc16_ccitt, statement by statement
\* ------------------------------------------------------------------------

\* Entry: crc = 0xFFFF, the loop over data.encode('utf-8') about to start.
CrcCall ==
    /\ crc_pc = "idle"
    /\ \E d \in CrcInputs : data' = d
    /\ crc' = CrcInit
    /\ byte_index' = 1
    /\ shift_count' = 0
    /\ crc_text' = <<>>
    /\ crc_pc' = "byte"
    /\ UNCHANGED <<genVars, repeatVars, concVars, appVars, chargeVars, mediusVars>>

\* crc ^= byte << 8
CrcTakeByte ==
    /\ crc_pc = "byte"
    /\ byte_index <= Len(EncodeUtf8(data))
    /\ crc' = CrcXorByte(crc, EncodeUtf8(data)[byte_index])
    /\ shift_count' = 0
    /\ crc_pc' = "shift"
    /\ UNCHANGED <<data, byte_index, crc_text>>
    /\ UNCHANGED <<genVars, repeatVars, concVars, appVars, chargeVars, mediusVars>>

\* One pass of "for _ in range(8)"; after the eighth, on to the next byte.
CrcShiftPass ==
    /\ crc_pc = "shift"
    /\ shift_count < 8
    /\ crc' = CrcStep(crc)
    /\ shift_count' = shift_count + 1
    /\ IF shift_count' = 8
       THEN byte_index' = byte_index + 1 /\ crc_pc' = "byte"
       ELSE byte_index' = byte_index /\ crc_pc' = "shift"
    /\ UNCHANGED <<data, crc_text>>
    /\ UNCHANGED <<genVars, repeatVars, concVars, appVars, chargeVars, mediusVars>>

\* return f"{crc:04X}"
CrcReturn ==
    /\ crc_pc = "byte"
    /\ byte_index > Len(EncodeUtf8(data))
    /\ crc_text' = Format04X(crc)
    /\ crc_pc' = "done"
    /\ UNCHANGED <<data, byte_index, shift_count, crc>>
    /\ UNCHANGED <<genVars, repeatVars, concVars, appVars, chargeVars, mediusVars>>

\* The caller has taken the returned text.
CrcFinish ==
    /\ crc_pc = "done"
    /\ crc_pc' = "idle"
    /\ data' = <<>>
    /\ byte_index' = 0
    /\ shift_count' = 0
    /\ crc' = 0
    /\ crc_text' = <<>>
    /\ UNCHANGED <<genVars, repeatVars, concVars, appVars, chargeVars, mediusVars>>

NextCrc == CrcCall \/ CrcTakeByte \/ CrcShiftPass \/ CrcReturn \/ CrcFinish

\* ------------------------------------------------------------------------
\* Repeated calls of generate_pix_code on one generator
\* ------------------------------------------------------------------------

\* Number of calls followed on one generator.
MaxCalls == 2

\* The arguments of the repeated calls: amount 138.42, the e-mail key, the
\* name "RECEITA FEDERAL"; transaction id omitted or given; description
\* empty or given.
RepeatArgs ==
    {[amount |-> 138420,
      recipient_key |-> <<103, 101, 114, 97, 114, 112, 97, 103, 97, 109, 101,
                          110, 116, 111, 64, 103, 109, 97, 105, 108, 46, 99,
                          111, 109>>,
      recipient_name |-> <<82, 69, 67, 69, 73, 84, 65, 32, 70, 69, 68, 69, 82,
                           65, 76>>,
      transaction_id |-> tid,
      description |-> description] :
        tid \in {<<>>, <<82, 69, 67, 50, 48, 50, 53, 48, 49, 48, 49, 48, 48,
                        48, 48, 48, 48, 49, 50, 51, 52>>},
        description \in Descriptions}

\* Every call draws a fresh id, also when one is given.
AlwaysFreshTransactionIds(tid) ==
    {generate_transaction_id(timestamp, random_part) :
        timestamp \in Timestamps, random_part \in RandomParts}

\* if not transaction_id: transaction_id = self._generate_transaction_id()
\* The ids a call may go on with: the given one, or any the clock and uuid4
\* may produce.
EffectiveTransactionIds(tid) ==
    IF tid # <<>> THEN {tid}
    ELSE {generate_transaction_id(timestamp, random_part) :
             timestamp \in Timestamps, random_part \in RandomParts}

\* One more call of generate_pix_code on the same generator, from entry to
\* return, remembered with its result.
RepeatCall ==
    /\ Len(calls) < MaxCalls
    /\ \E a \in RepeatArgs :
        \E tid \in EffectiveTransactionIds(a.transaction_id) :
            calls' = Append(calls,
                [args |-> a,
                 transaction_id |-> tid,
                 pix_code |-> generate_pix_code(Self, a.amount, a.recipient_key,
                                                a.recipient_name, tid,
                                                a.description)])
    /\ UNCHANGED <<genVars, crcVars, concVars, appVars, chargeVars, mediusVars>>

NextRepeat == RepeatCall

\* ------------------------------------------------------------------------
\* Concurrent calls of generate_pix_code on one generator
\* ------------------------------------------------------------------------
\* Each thread makes one call with a transaction id of its own.  A step is
\* one "pix_code += ..." statement at the top level of the function; the
\* blocks under 26 and 62 are built in locals of the same call and are part
\* of the step that appends them.

\* The arguments of thread t: amount 138.42 for odd t and none for even t,
\* the e-mail key, the name "RECEITA FEDERAL", the id "TX" + t, and a
\* description for even t.
ThreadArgs(t) ==
    [amount |-> IF t % 2 = 1 THEN 138420 ELSE 0,
     recipient_key |-> <<103, 101, 114, 97, 114, 112, 97, 103, 97, 109, 101,
                         110, 116, 111, 64, 103, 109, 97, 105, 108, 46, 99,
                         111, 109>>,
     recipient_name |-> <<82, 69, 67, 69, 73, 84, 65, 32, 70, 69, 68, 69, 82,
                          65, 76>>,
     transaction_id |-> <<84, 88>> \o DecDigits(t),
     description |-> IF t % 2 = 0
                     THEN <<82, 101, 103, 117, 108, 97, 114, 105, 122, 97,
                            231, 227, 111>>
                     ELSE <<>>]

\* The top-level fields thread t appends, in order.
ThreadFields(t) ==
    TopFields(Self, ThreadArgs(t).amount, ThreadArgs(t).recipient_key,
              ThreadArgs(t).recipient_name, ThreadArgs(t).transaction_id,
              ThreadArgs(t).description)

\* One pix_code shared by all calls, as an attribute of the generator
\* would be.
SharedBuffer(t) == th_buf[1]

\* pix_code, a local of the call thread t makes.
Buffer(t) == th_buf[t]

\* Entry, and pix_code = ""
ConcCall(t) ==
    /\ th_pc[t] = "idle"
    /\ th_pc' = [th_pc EXCEPT ![t] = "fields"]
    /\ th_next' = [th_next EXCEPT ![t] = 1]
    /\ th_buf' = [th_buf EXCEPT ![t] = <<>>]
    /\ UNCHANGED th_crc
    /\ UNCHANGED <<genVars, crcVars, repeatVars, appVars, chargeVars, mediusVars>>

\* pix_code += self._format_emv_field(tag, value), for the next field
ConcAppendField(t) ==
    /\ th_pc[t] = "fields"
    /\ th_next[t] <= Len(ThreadFields(t))
    /\ th_buf' = [th_buf EXCEPT ![t] =
                     Buffer(t) \o format_emv_field(ThreadFields(t)[th_next[t]].tag,
                                                   ThreadFields(t)[th_next[t]].value)]
    /\ th_next' = [th_next EXCEPT ![t] = th_next[t] + 1]
    /\ UNCHANGED <<th_pc, th_crc>>
    /\ UNCHANGED <<genVars, crcVars, repeatVars, appVars, chargeVars, mediusVars>>

\* pix_code += "6304"
ConcAppendHeader(t) ==
    /\ th_pc[t] = "fields"
    /\ th_next[t] > Len(ThreadFields(t))
    /\ th_buf' = [th_buf EXCEPT ![t] = Buffer(t) \o CrcHeader]
    /\ th_pc' = [th_pc EXCEPT ![t] = "crc"]
    /\ UNCHANGED <<th_next, th_crc>>
    /\ UNCHANGED <<genVars, crcVars, repeatVars, appVars, chargeVars, mediusVars>>

\* crc = self._calculate_crc16_ccitt(pix_code)
ConcComputeCrc(t) ==
    /\ th_pc[t] = "crc"
    /\ th_crc' = [th_crc EXCEPT ![t] = calculate_crc16_ccitt(Buffer(t))]
    /\ th_pc' = [th_pc EXCEPT ![t] = "append"]
    /\ UNCHANGED <<th_next, th_buf>>
    /\ UNCHANGED <<genVars, crcVars, repeatVars, appVars, chargeVars, mediusVars>>

\* pix_code += crc ; return pix_code
ConcAppendCrc(t) ==
    /\ th_pc[t] = "append"
    /\ th_buf' = [th_buf EXCEPT ![t] = Buffer(t) \o th_crc[t]]
    /\ th_pc' = [th_pc EXCEPT ![t] = "returned"]
    /\ UNCHANGED <<th_next, th_crc>>
    /\ UNCHANGED <<genVars, crcVars, repeatVars, appVars, chargeVars, mediusVars>>

NextConc ==
    \E t \in Threads :
        \/ ConcCall(t)
        \/ ConcAppendField(t)
        \/ ConcAppendHeader(t)
        \/ ConcComputeCrc(t)
        \/ ConcAppendCrc(t)

\* ------------------------------------------------------------------------
\* The web application: POST /generate-pix
\* ------------------------------------------------------------------------

\* "data:image/png;base64,"
DataUrlPrefix ==
    <<100, 97, 116, 97, 58, 105, 109, 97, 103, 101, 47, 112, 110, 103, 59,
      98, 97, 115, 101, 54, 52, 44>>

\* generate_qr_code_image: the data-URL prefix and the base64 text of the
\* PNG.  The picture is a function of the text it encodes; its base64 text
\* is represented by "iVBORw0KGgo" (the PNG signature in base64) followed by
\* the encoded text.
generate_qr_code_image(code) ==
    DataUrlPrefix
    \o (<<105, 86, 66, 79, 82, 119, 48, 75, 71, 103, 111>>
        \o code)

\* The template of line 250 around the transaction id; the second part ends
\* with "6304".
AuthenticHead ==
    <<48, 48, 48, 50, 48, 49, 48, 49, 48, 50, 49, 50, 50, 54, 56, 52, 48,
      48, 49, 52, 98, 114, 46, 103, 111, 118, 46, 98, 99, 98, 46, 112, 105,
      120, 50, 53, 54, 50, 113, 114, 99, 111, 100, 101, 46, 111, 119, 101,
      109, 112, 97, 121, 46, 99, 111, 109, 46, 98, 114, 47, 112, 105, 120,
      47>>

AuthenticTail ==
    <<53, 50, 48, 52, 48, 48, 48, 48, 53, 51, 48, 51, 57, 56, 54, 53, 56,
      48, 50, 66, 82, 53, 57, 50, 52, 80, 65, 71, 32, 73, 78, 84, 69, 82, 77,
      69, 68, 73, 65, 67, 79, 69, 83, 32, 68, 69, 32, 86, 69, 54, 48, 49, 53,
      83, 65, 79, 32, 66, 69, 82, 78, 65, 82, 68, 79, 32, 68, 79, 54, 50, 48,
      55, 48, 53, 48, 51, 42, 42, 42, 54, 51, 48, 52>>

\* calculate_crc16, the function defined inside the handler: the same
\* register walk over data.encode(), rendered with format(crc, '04X').
calculate_crc16(str) == Format04X(CrcOf(EncodeUtf8(str)))

\* authentic_pix_code[:-4]
DropLastFour(s) == SubSeq(s, 1, Len(s) - 4)

\* The code the handler makes up from the transaction id: the template,
\* then pix_without_crc = authentic_pix_code[:-4], then pix_without_crc +
\* calculate_crc16(pix_without_crc).
authentic_pix_code(real_transaction_id) ==
    LET pix_without_crc ==
            DropLastFour(AuthenticHead \o real_transaction_id \o AuthenticTail)
    IN  pix_without_crc \o calculate_crc16(pix_without_crc)

\* re.sub(r'[^0-9]', '', cpf)
CleanCpf(cpf) == SelectSeq(cpf, LAMBDA c : c >= 48 /\ c <= 57)

\* f"{clean_cpf[:3]}.{clean_cpf[3:6]}.{clean_cpf[6:9]}-{clean_cpf[9:]}"
FormatCpf(clean_cpf) ==
    SubSeq(clean_cpf, 1, 3) \o <<46>> \o SubSeq(clean_cpf, 4, 6) \o <<46>>
    \o SubSeq(clean_cpf, 7, 9) \o <<45>> \o SubSeq(clean_cpf, 10, Len(clean_cpf))

\* The fixed amount of line 188, 138.42, in thousandths.
FixedAmount == 138420

\* An error response: status, success = False and the error text (named by
\* a label), nothing else.
ErrorResponse(status, error) ==
    [status |-> status, success |-> FALSE, error |-> error,
     pixCode |-> <<>>, pixQrCode |-> <<>>, orderId |-> <<>>, amount |-> 0,
     transactionId |-> <<>>]

\* The response of lines 288-295 for the final pix_data.
SuccessResponse(pix_data) ==
    [status |-> 200, success |-> TRUE, error |-> "",
     pixCode |-> pix_data.pix_code, pixQrCode |-> pix_data.qr_code_image,
     orderId |-> pix_data.order_id, amount |-> pix_data.amount,
     transactionId |-> pix_data.transaction_id]

\* No response: the request is not answered yet.
NoResponse == ErrorResponse(0, "")

\* pix_data when the result of the follow-up lookup is never taken over.
PixDataIgnoringLookup(create, lookup) ==
    IF create.pix_code # <<>>
    THEN IF create.qr_code_image = <<>>
         THEN [create EXCEPT !.qr_code_image =
                   DataUrlPrefix \o generate_qr_code_image(create.pix_code)]
         ELSE create
    ELSE LET code == authentic_pix_code(create.transaction_id)
         IN  [create EXCEPT
                  !.pix_code = code,
                  !.qr_code_image =
                      DataUrlPrefix \o generate_qr_code_image(code)]

\* Lines 216-277: pix_data after the create call succeeded with a
\* transaction id, and whether get_transaction_by_id was called.
\*  - a code in the create response: kept, the picture rendered locally
\*    when the gateway sent none;
\*  - else the follow-up lookup, whose result replaces pix_data when it
\*    succeeded with a code;
\*  - else the code made up from the transaction id and its picture.
PixDataAfterCreate(create, lookup) ==
    IF create.pix_code # <<>>
    THEN IF create.qr_code_image = <<>>
         THEN [create EXCEPT !.qr_code_image =
                   DataUrlPrefix \o generate_qr_code_image(create.pix_code)]
         ELSE create
    ELSE IF ~lookup.raises /\ lookup.success /\ lookup.pix_code # <<>>
         THEN lookup
         ELSE LET code == authentic_pix_code(create.transaction_id)
              IN  [create EXCEPT
                       !.pix_code = code,
                       !.qr_code_image =
                           DataUrlPrefix \o generate_qr_code_image(code)]

\* The payment part when the follow-up lookup is made after every create
\* call that succeeded, also one that brought a code.
PayAlwaysLookingUp(customer, create, lookup) ==
    IF create.raises
    THEN [response |-> ErrorResponse(500, "medius_error"),
          gateway_calls |-> <<"create_pix_transaction">>]
    ELSE IF ~(create.success /\ create.transaction_id # <<>>)
    THEN [response |-> ErrorResponse(500, "medius_create_failed"),
          gateway_calls |-> <<"create_pix_transaction">>]
    ELSE [response |-> SuccessResponse(PixDataAfterCreate(create, lookup)),
          gateway_calls |->
              <<"create_pix_transaction", "get_transaction_by_id">>]

\* Lines 186-302: the rest of the handler once customer_data is there.
\* The result holds the response and the gateway calls made.
PayWithCustomer(customer, create, lookup) ==
    IF create.raises
    THEN [response |-> ErrorResponse(500, "medius_error"),
          gateway_calls |-> <<"create_pix_transaction">>]
    ELSE IF ~(create.success /\ create.transaction_id # <<>>)
    THEN [response |-> ErrorResponse(500, "medius_create_failed"),
          gateway_calls |-> <<"create_pix_transaction">>]
    ELSE [response |-> SuccessResponse(PixDataAfterCreate(create, lookup)),
          gateway_calls |->
              IF create.pix_code # <<>>
              THEN <<"create_pix_transaction">>
              ELSE <<"create_pix_transaction", "get_transaction_by_id">>]

\* The whole handler, lines 126-302.  sess is session['customer_data'],
\* r what the request and the services supply: whether the gateway
\* credentials are configured, the cpf of the request body, the answer of
\* the CPF service, the outcome of create_pix_transaction and the outcome
\* of get_transaction_by_id.  The result holds the response, the session
\* afterwards, and the calls made.
generate_pix(sess, r) ==
    IF ~r.secret_configured
    THEN [response |-> ErrorResponse(500, "secret_key_missing"),
          session |-> sess, cpf_lookups |-> <<>>, gateway_calls |-> <<>>]
    ELSE IF sess # <<>>
    THEN [response |-> PayWithCustomer(sess[1], r.create, r.lookup).response,
          session |-> sess, cpf_lookups |-> <<>>,
          gateway_calls |->
              PayWithCustomer(sess[1], r.create, r.lookup).gateway_calls]
    ELSE IF r.cpf = <<>>
    THEN [response |-> ErrorResponse(400, "cpf_required"),
          session |-> sess, cpf_lookups |-> <<>>, gateway_calls |-> <<>>]
    ELSE IF Len(CleanCpf(r.cpf)) # 11
    THEN [response |-> ErrorResponse(400, "cpf_invalid"),
          session |-> sess, cpf_lookups |-> <<>>, gateway_calls |-> <<>>]
    ELSE IF r.cpf_data = <<>>
    THEN [response |-> ErrorResponse(400, "cpf_not_found"),
          session |-> sess, cpf_lookups |-> <<CleanCpf(r.cpf)>>,
          gateway_calls |-> <<>>]
    ELSE [response |->
              PayWithCustomer([nome |-> r.cpf_data[1].nome,
                               cpf |-> FormatCpf(CleanCpf(r.cpf))],
                              r.create, r.lookup).response,
          session |-> <<[nome |-> r.cpf_data[1].nome,
                         cpf |-> FormatCpf(CleanCpf(r.cpf))]>>,
          cpf_lookups |-> <<CleanCpf(r.cpf)>>,
          gateway_calls |->
              PayWithCustomer([nome |-> r.cpf_data[1].nome,
                               cpf |-> FormatCpf(CleanCpf(r.cpf))],
                              r.create, r.lookup).gateway_calls]

\* The cpf of a request body: none, "123.456.789-09" and "12345".
RequestCpfs ==
    {<<>>,
     <<49, 50, 51, 46, 52, 53, 54, 46, 55, 56, 57, 45, 48, 57>>,
     <<49, 50, 51, 52, 53>>}

\* What the CPF service answers: nothing, or DADOS with a name.
CpfAnswers ==
    {<<>>,
     <<[nome |->
            <<77, 65, 82, 73, 65, 32, 68, 65, 32, 83, 73, 76, 86, 65>>]>>}

\* Transaction ids of the gateway: none, a short one and a UUID.
GatewayIds ==
    {<<>>,
     <<116, 120, 95, 57, 102, 49, 99, 50, 100, 51, 101>>,
     <<49, 54, 53, 52, 53, 97, 97, 53, 45, 51, 98, 56, 98, 45, 52, 102, 51,
       97, 45, 57, 98, 55, 100, 45, 49, 50, 51, 52, 53, 54, 55, 56, 57, 48,
       97, 98>>}

\* A PIX code and a picture as the gateway sends them.
GatewayPixCode ==
    <<48, 48, 48, 50, 48, 49, 48, 49, 48, 50, 49, 50, 50, 54, 56, 50, 48,
      48, 49, 52, 98, 114, 46, 103, 111, 118, 46, 98, 99, 98, 46, 112, 105,
      120, 50, 53, 54, 48, 113, 114, 99, 111, 100, 101, 46, 111, 119, 101,
      109, 112, 97, 121, 46, 99, 111, 109, 46, 98, 114, 47, 112, 105, 120, 47,
      116, 120, 95, 57, 102, 49, 99, 50, 100, 51, 101, 53, 50, 48, 52, 48, 48,
      48, 48, 53, 51, 48, 51, 57, 56, 54, 53, 56, 48, 50, 66, 82, 53, 57, 50,
      52, 80, 65, 71, 32, 73, 78, 84, 69, 82, 77, 69, 68, 73, 65, 67, 79, 69,
      83, 32, 68, 69, 32, 86, 69, 54, 48, 49, 53, 83, 65, 79, 32, 66, 69, 82,
      78, 65, 82, 68, 79, 32, 68, 79, 54, 50, 48, 55, 48, 53, 48, 51, 42, 42,
      42, 54, 51, 48, 52, 49, 68, 51, 68>>

GatewayQrImage ==
    DataUrlPrefix
    \o <<105, 86, 66, 79, 82, 119, 48, 75, 71, 103, 111, 65, 65, 65, 65, 78, 83,
  85, 104, 69, 85, 103, 61, 61>>

\* What create_pix_transaction does: it raises, or it returns success =
\* True with the id of the transaction, order_id the same id, the amount it
\* was given, and the code and the picture of the response or ''.
CreateOutcomes ==
    {[raises |-> TRUE, success |-> FALSE, transaction_id |-> <<>>,
      order_id |-> <<>>, amount |-> 0, pix_code |-> <<>>,
      qr_code_image |-> <<>>]}
    \cup
    {[raises |-> FALSE, success |-> TRUE, transaction_id |-> id,
      order_id |-> id, amount |-> FixedAmount, pix_code |-> code,
      qr_code_image |-> image] :
        id \in GatewayIds, code \in {<<>>, GatewayPixCode},
        image \in {<<>>, GatewayQrImage}}

\* The transaction id get_transaction_by_id reports.
LookupId ==
     <<116, 120, 95, 57, 102, 49, 99, 50, 100, 51, 101>>

\* What get_transaction_by_id does: an exception reaches the handler, or it
\* returns success = False, or success = True with the code and the picture
\* of the response or ''.
LookupOutcomes ==
    {[raises |-> rs, success |-> FALSE, transaction_id |-> <<>>,
      order_id |-> <<>>, amount |-> 0, pix_code |-> <<>>,
      qr_code_image |-> <<>>] : rs \in BOOLEAN}
    \cup
    {[raises |-> FALSE, success |-> TRUE, transaction_id |-> LookupId,
      order_id |-> LookupId, amount |-> FixedAmount, pix_code |-> code,
      qr_code_image |-> image] :
        code \in {<<>>, GatewayPixCode}, image \in {<<>>, GatewayQrImage}}

Requests ==
    [secret_configured : BOOLEAN, cpf : RequestCpfs, cpf_data : CpfAnswers,
     create : CreateOutcomes, lookup : LookupOutcomes]

\* No request under way.
NoRequest ==
    [secret_configured |-> TRUE, cpf |-> <<>>, cpf_data |-> <<>>,
     create |-> CHOOSE c \in CreateOutcomes : c.raises,
     lookup |-> CHOOSE l \in LookupOutcomes : l.raises]

\* A new browser session, no request yet.
InitApp ==
    /\ session = <<>>
    /\ app_pc = "idle"
    /\ req = NoRequest
    /\ cpf_lookups = <<>>
    /\ gateway_calls = <<>>
    /\ response = NoResponse
    /\ page = ""

\* One POST to /generate-pix, from entry to the response.
GeneratePix ==
    /\ app_pc = "idle"
    /\ \E r \in Requests :
        LET result == generate_pix(session, r)
        IN  /\ req' = r
            /\ response' = result.response
            /\ session' = result.session
            /\ cpf_lookups' = result.cpf_lookups
            /\ gateway_calls' = result.gateway_calls
    /\ app_pc' = "responded"
    /\ page' = ""
    /\ UNCHANGED <<genVars, crcVars, repeatVars, concVars, chargeVars, mediusVars>>

\* index_with_cpf when the path is looked up whatever its length.
IndexWithoutLengthTest(sess, cpf, cpf_data) ==
    IF cpf_data # <<>>
    THEN [page |-> "index.html",
          session |-> <<[nome |-> cpf_data[1].nome,
                         cpf |-> FormatCpf(CleanCpf(cpf))]>>,
          cpf_lookups |-> <<CleanCpf(cpf)>>]
    ELSE [page |-> "buscar-cpf.html", session |-> sess,
          cpf_lookups |-> <<CleanCpf(cpf)>>]

\* Lines 77-113: GET /<path:cpf>.  sess is session['customer_data'], cpf
\* the path, cpf_data what get_cpf_data answers.  The result holds the
\* template rendered, the session afterwards and the CPF lookups made.
\* Of customer_data the model keeps nome and cpf, the two entries
\* /generate-pix reads.
index_with_cpf(sess, cpf, cpf_data) ==
    IF Len(CleanCpf(cpf)) # 11
    THEN [page |-> "buscar-cpf.html", session |-> sess,
          cpf_lookups |-> <<>>]
    ELSE IF cpf_data # <<>>
    THEN [page |-> "index.html",
          session |-> <<[nome |-> cpf_data[1].nome,
                         cpf |-> FormatCpf(CleanCpf(cpf))]>>,
          cpf_lookups |-> <<CleanCpf(cpf)>>]
    ELSE [page |-> "buscar-cpf.html", session |-> sess,
          cpf_lookups |-> <<CleanCpf(cpf)>>]

\* Paths of GET /<path:cpf>: "123.456.789-09", "12345" and "favicon.ico".
PathCpfs ==
    {<<49, 50, 51, 46, 52, 53, 54, 46, 55, 56, 57, 45, 48, 57>>,
     <<49, 50, 51, 52, 53>>,
     <<102, 97, 118, 105, 99, 111, 110, 46, 105, 99, 111>>}

\* One GET to /<path:cpf>, from entry to the page.
IndexWithCpf ==
    /\ app_pc = "idle"
    /\ \E c \in PathCpfs, d \in CpfAnswers :
        LET result == index_with_cpf(session, c, d)
        IN  /\ req' = [NoRequest EXCEPT !.cpf = c, !.cpf_data = d]
            /\ page' = result.page
            /\ session' = result.session
            /\ cpf_lookups' = result.cpf_lookups
    /\ app_pc' = "rendered"
    /\ gateway_calls' = <<>>
    /\ response' = NoResponse
    /\ UNCHANGED <<genVars, crcVars, repeatVars, concVars, chargeVars, mediusVars>>

\* The response is out; the session stays.
AppFinish ==
    /\ app_pc \in {"responded", "rendered"}
    /\ app_pc' = "idle"
    /\ page' = ""
    /\ req' = NoRequest
    /\ cpf_lookups' = <<>>
    /\ gateway_calls' = <<>>
    /\ response' = NoResponse
    /\ UNCHANGED session
    /\ UNCHANGED <<genVars, crcVars, repeatVars, concVars, chargeVars, mediusVars>>

NextApp == GeneratePix \/ IndexWithCpf \/ AppFinish

\* ------------------------------------------------------------------------
\* NewPixAPI: create_charge and _create_pix_charge
\* ------------------------------------------------------------------------

\* The template of line 69 around the transaction id; the second part ends
\* with "6304".
ChargeCodeHead ==
    <<48, 48, 48, 50, 48, 49, 48, 49, 48, 50, 49, 50, 50, 54, 56, 52, 48,
      48, 49, 52, 98, 114, 46, 103, 111, 118, 46, 98, 99, 98, 46, 112, 105,
      120, 50, 53, 54, 50, 113, 114, 99, 111, 100, 101, 46, 119, 105, 116,
      101, 112, 97, 121, 46, 99, 111, 109, 46, 98, 114, 47, 112, 105, 120,
      47>>

ChargeCodeTail ==
    <<53, 50, 48, 52, 48, 48, 48, 48, 53, 51, 48, 51, 57, 56, 54, 53, 56,
      48, 50, 66, 82, 53, 57, 50, 52, 82, 69, 67, 69, 73, 84, 65, 32, 70, 69,
      68, 69, 82, 65, 76, 32, 66, 82, 65, 83, 73, 76, 54, 48, 48, 57, 83, 65,
      79, 32, 80, 65, 85, 76, 79, 54, 50, 48, 55, 48, 53, 48, 51, 42, 42, 42,
      54, 51, 48, 52>>

\* The template of line 138 around the order id; the second part ends with
\* "6304A1B2".
FallbackCodeHead ==
    <<48, 48, 48, 50, 48, 49, 48, 49, 48, 50, 49, 49, 50, 54, 53, 56, 48,
      48, 49, 52, 98, 114, 46, 103, 111, 118, 46, 98, 99, 98, 46, 112, 105,
      120, 48, 49, 51, 54>>

FallbackCodeTail ==
    <<53, 50, 48, 52, 48, 48, 48, 48, 53, 51, 48, 51, 57, 56, 54, 53, 56,
      48, 50, 66, 82, 53, 57, 50, 53, 82, 69, 67, 69, 73, 84, 65, 32, 70, 69,
      68, 69, 82, 65, 76, 32, 68, 79, 32, 66, 82, 65, 83, 73, 76, 54, 48, 48,
      57, 83, 65, 79, 32, 80, 65, 85, 76, 79, 54, 50, 48, 55, 48, 53, 48, 51,
      42, 42, 42, 54, 51, 48, 52, 65, 49, 66, 50>>

\* The code of line 185, a constant.
UnreachableFallbackCode ==
    <<48, 48, 48, 50, 48, 49, 48, 49, 48, 50, 49, 49, 50, 54, 53, 56, 48,
      48, 49, 52, 98, 114, 46, 103, 111, 118, 46, 98, 99, 98, 46, 112, 105,
      120, 48, 49, 51, 54, 49, 54, 53, 52, 53, 97, 97, 53, 45, 51, 98, 56, 98,
      45, 52, 102, 51, 97, 45, 57, 98, 55, 100, 45, 49, 50, 51, 52, 53, 54,
      55, 56, 57, 48, 97, 98, 53, 50, 48, 52, 48, 48, 48, 48, 53, 51, 48, 51,
      57, 56, 54, 53, 56, 48, 50, 66, 82, 53, 57, 50, 53, 82, 69, 67, 69, 73,
      84, 65, 32, 70, 69, 68, 69, 82, 65, 76, 32, 68, 79, 32, 66, 82, 65, 83,
      73, 76, 54, 48, 48, 57, 83, 65, 79, 32, 80, 65, 85, 76, 79, 54, 50, 48,
      55, 48, 53, 48, 51, 42, 42, 42, 54, 51, 48, 52, 65, 49, 66, 50>>

\* The picture of lines 33 and 186.
QrCodePlaceholder ==
    <<100, 97, 116, 97, 58, 105, 109, 97, 103, 101, 47, 112, 110, 103, 59,
      98, 97, 115, 101, 54, 52, 44, 105, 86, 66, 79, 82, 119, 48, 75, 71, 103,
      111, 65, 65, 65, 65, 78, 83, 85, 104, 69, 85, 103, 65, 65, 65, 65, 69,
      65, 65, 65, 65, 66, 67, 65, 89, 65, 65, 65, 65, 102, 70, 99, 83, 74, 65,
      65, 65, 65, 68, 85, 108, 69, 81, 86, 82, 52, 50, 109, 80, 56, 47, 53,
      43, 104, 72, 103, 65, 72, 103, 103, 74, 47, 80, 99, 104, 73, 55, 119,
      65, 65, 65, 65, 66, 74, 82, 85, 53, 69, 114, 107, 74, 103, 103, 103, 61,
      61>>

\* str.upper() on the letters a-z; the ids of the model are ASCII.
Upper(s) == [i \in 1..Len(s) |-> IF s[i] >= 97 /\ s[i] <= 122 THEN s[i] - 32 ELSE s[i]]

\* s[-4:]
LastFour(s) == SubSeq(s, IF Len(s) > 4 THEN Len(s) - 3 ELSE 1, Len(s))

\* Line 69: the code _create_pix_charge makes up from the transaction id.
ChargePixCode(transaction_id_) ==
    ChargeCodeHead \o transaction_id_ \o ChargeCodeTail
    \o Upper(LastFour(transaction_id_))

\* Line 138: the code of the fallback for an answer that is not ok.
FallbackPixCode(order_id) == FallbackCodeHead \o order_id \o FallbackCodeTail

\* A JSON object of the gateway, by the keys the code reads: whether it is
\* empty, status, orderId and qrCode (with whether the key is there), and
\* transactionId ('' when missing); pixCode and qrCodeImage are the keys
\* the fallbacks set.
NoData ==
    [empty |-> TRUE, status |-> "", has_orderId |-> FALSE, orderId |-> <<>>,
     has_qrCode |-> FALSE, qrCode |-> <<>>, transactionId |-> <<>>,
     pixCode |-> <<>>, qrCodeImage |-> <<>>]

\* _create_pix_charge: None (none = TRUE) for an exception, a status other
\* than 200/201 or an undecodable body; else the decoded data, with qrCode
\* replaced by the made-up code when it is '' and there is a transaction
\* id.
create_pix_charge(order_id, charge) ==
    IF charge.kind # "json"
    THEN [none |-> TRUE, data |-> NoData]
    ELSE IF charge.data.has_qrCode /\ charge.data.qrCode = <<>>
            /\ charge.data.transactionId # <<>>
    THEN [none |-> FALSE,
          data |-> [charge.data EXCEPT
                       !.qrCode = ChargePixCode(charge.data.transactionId)]]
    ELSE [none |-> FALSE, data |-> charge.data]

\* api_result.update(pix_data), on the keys of the model.
UpdateResult(api_result, pix_data) ==
    [api_result EXCEPT
        !.has_qrCode = api_result.has_qrCode \/ pix_data.has_qrCode,
        !.qrCode = IF pix_data.has_qrCode THEN pix_data.qrCode
                   ELSE api_result.qrCode,
        !.transactionId = IF pix_data.transactionId # <<>>
                          THEN pix_data.transactionId
                          ELSE api_result.transactionId]

\* Lines 194-211: the result made from api_result.
ChargeResult(order_id, api_result) ==
    [raised |-> FALSE, error |-> "", success |-> TRUE, order_id |-> order_id,
     pix_code |-> IF api_result.has_qrCode THEN api_result.qrCode ELSE <<>>,
     qr_code_image |-> api_result.qrCodeImage,
     api_response |-> api_result]

\* create_charge raising Exception(error).
ChargeRaised(error) ==
    [raised |-> TRUE, error |-> error, success |-> FALSE, order_id |-> <<>>,
     pix_code |-> <<>>, qr_code_image |-> <<>>, api_response |-> NoData]

\* create_charge, lines 86-221, for the order id drawn, the answer to
\* /v1/order/create and the answer to /v1/charge/create.
create_charge(order_id, order, charge) ==
    IF order.kind = "unreachable"
    THEN ChargeResult(order_id,
             [NoData EXCEPT !.empty = FALSE, !.status = "pending",
                            !.has_orderId = TRUE, !.orderId = order_id,
                            !.pixCode = UnreachableFallbackCode,
                            !.qrCodeImage = QrCodePlaceholder])
    ELSE IF order.kind = "not_ok"
    THEN ChargeResult(order_id,
             [NoData EXCEPT !.empty = FALSE, !.status = "pending",
                            !.has_orderId = TRUE, !.orderId = order_id,
                            !.pixCode = FallbackPixCode(order_id),
                            !.qrCodeImage = QrCodePlaceholder])
    ELSE IF order.kind = "empty_body"
    THEN ChargeRaised("empty_response")
    ELSE IF order.kind = "bad_json"
    THEN ChargeRaised("invalid_response")
    ELSE IF order.data.status = "success" /\ order.data.has_orderId
    THEN IF create_pix_charge(order.data.orderId, charge).none
            \/ create_pix_charge(order.data.orderId, charge).data.empty
         THEN ChargeRaised("pix_charge_failed")
         ELSE ChargeResult(order_id,
                  UpdateResult(order.data,
                      create_pix_charge(order.data.orderId, charge).data))
    ELSE ChargeResult(order_id, order.data)

\* _generate_order_id: "or_" and 16 hex digits of a fresh uuid4
\* ("or_0123456789abcdef", "or_ffffffffffffffff").
OrderIds ==
    {<<111, 114, 95, 48, 49, 50, 51, 52, 53, 54, 55, 56, 57, 97, 98, 99, 100,
  101, 102>>,
     <<111, 114, 95, 102, 102, 102, 102, 102, 102, 102, 102, 102, 102, 102, 102,
  102, 102, 102, 102>>}

\* The order id the gateway reports ("ord_1").
GatewayOrderId == <<111, 114, 100, 95, 49>>

\* Answers to /v1/order/create: no connection, a status that is not ok, an
\* empty body, a body that is not JSON, or a JSON object with status
\* "success" or "error", with or without orderId.
OrderAnswers ==
    {[kind |-> k, data |-> NoData] :
        k \in {"unreachable", "not_ok", "empty_body", "bad_json"}}
    \cup
    {[kind |-> "json",
      data |-> [NoData EXCEPT !.empty = FALSE, !.status = st,
                              !.has_orderId = has,
                              !.orderId = IF has THEN GatewayOrderId ELSE <<>>]] :
        st \in {"success", "error"}, has \in BOOLEAN}

\* Transaction ids of the gateway: none, "ab", "tx_9f1c2d3e" and a UUID.
ChargeTransactionIds ==
    {<<>>,
     <<97, 98>>,
     <<116, 120, 95, 57, 102, 49, 99, 50, 100, 51, 101>>,
     <<49, 54, 53, 52, 53, 97, 97, 53, 45, 51, 98, 56, 98, 45, 52, 102, 51,
       97, 45, 57, 98, 55, 100, 45, 49, 50, 51, 52, 53, 54, 55, 56, 57, 48,
       97, 98>>}

\* Answers to /v1/charge/create: an exception, a status other than 200/201,
\* a body that is not JSON, the empty object, or an object with qrCode
\* missing, '' or a code, and with a transactionId or none.
ChargeAnswers ==
    {[kind |-> k, data |-> NoData] : k \in {"exception", "not_ok", "bad_json"}}
    \cup {[kind |-> "json", data |-> NoData]}
    \cup
    {[kind |-> "json",
      data |-> [NoData EXCEPT !.empty = FALSE, !.status = "pending",
                              !.has_qrCode = q[1], !.qrCode = q[2],
                              !.transactionId = id]] :
        q \in {<<FALSE, <<>>>>, <<TRUE, <<>>>>, <<TRUE, GatewayPixCode>>},
        id \in ChargeTransactionIds}

NoChargeRequest ==
    [order_id |-> <<>>, order |-> [kind |-> "unreachable", data |-> NoData],
     charge |-> [kind |-> "exception", data |-> NoData]]

\* No call of create_charge under way.
InitCharge ==
    /\ charge_pc = "idle"
    /\ charge_req = NoChargeRequest
    /\ charge_result = ChargeRaised("")

\* One call of create_charge, from entry to return or raise.
CreateCharge ==
    /\ charge_pc = "idle"
    /\ \E order_id \in OrderIds, order \in OrderAnswers, charge \in ChargeAnswers :
        /\ charge_req' = [order_id |-> order_id, order |-> order, charge |-> charge]
        /\ charge_result' = create_charge(order_id, order, charge)
    /\ charge_pc' = "returned"
    /\ UNCHANGED <<genVars, crcVars, repeatVars, concVars, appVars, mediusVars>>

\* The caller has taken the result.
ChargeFinish ==
    /\ charge_pc = "returned"
    /\ charge_pc' = "idle"
    /\ charge_req' = NoChargeRequest
    /\ charge_result' = ChargeRaised("")
    /\ UNCHANGED <<genVars, crcVars, repeatVars, concVars, appVars, mediusVars>>

NextCharge == CreateCharge \/ ChargeFinish

\* ------------------------------------------------------------------------
\* MediusPagAPI (medius_pag_api.py)
\* ------------------------------------------------------------------------

\* An entry of a dict is a sequence: <<>> when the key is absent, <<v>> when
\* it is there with value v.  A text entry is truthy when it is there and
\* not '' (None is modelled by '').
Truthy(entry) == entry # <<>> /\ entry[1] # <<>>

\* An amount entry is truthy when it is there and not 0.
TruthyAmount(entry) == entry # <<>> /\ entry[1] # 0

\* The required fields when only an absent key counts as missing.
AbsentFields(payment) ==
    SelectSeq(<<"amount", "customer_name", "customer_cpf">>,
              LAMBDA field :
                  CASE field = "amount" -> payment.amount = <<>>
                    [] field = "customer_name" -> payment.customer_name = <<>>
                    [] field = "customer_cpf" -> payment.customer_cpf = <<>>)

\* Lines 46-50: the required fields that are not in data or are falsy.
MissingFields(payment) ==
    SelectSeq(<<"amount", "customer_name", "customer_cpf">>,
              LAMBDA field :
                  CASE field = "amount" -> ~TruthyAmount(payment.amount)
                    [] field = "customer_name" -> ~Truthy(payment.customer_name)
                    [] field = "customer_cpf" -> ~Truthy(payment.customer_cpf))

\* The first truthy entry of a sequence of entries, <<>> when there is none
\* (the loops of lines 164-170 and 174-180).
RECURSIVE FirstTruthy(_)
FirstTruthy(entries) ==
    IF entries = <<>> THEN <<>>
    ELSE IF Truthy(Head(entries)) THEN Head(entries)
    ELSE FirstTruthy(Tail(entries))

\* The code search when every later field that is truthy replaces what an
\* earlier field gave.
RECURSIVE LastTruthy(_)
LastTruthy(entries) ==
    IF entries = <<>> THEN <<>>
    ELSE IF Truthy(entries[Len(entries)]) THEN entries[Len(entries)]
    ELSE LastTruthy(SubSeq(entries, 1, Len(entries) - 1))

PixCodeLastWins(result) ==
    LastTruthy(<<IF result.pix_is_dict THEN result.pix_qrcode ELSE <<>>,
                 IF result.pix_is_dict THEN result.pix_pixCopyPaste ELSE <<>>,
                 result.pixCopyPaste, result.qrCodePix,
                 result.pix_copy_paste, result.copyPaste, result.code>>)

\* Lines 129-170: the entry pix_data['pix_code'] is set from, <<>> when
\* pix_code_found stays False.  result is the decoded body.
PixCodeFound(result) ==
    LET in_pix ==
            IF ~result.pix_is_dict THEN <<>>
            ELSE IF Truthy(result.pix_qrcode) THEN result.pix_qrcode
            ELSE IF Truthy(result.pix_pixCopyPaste)
            THEN result.pix_pixCopyPaste
            ELSE <<>>
    IN  IF in_pix # <<>> THEN in_pix
        ELSE IF Truthy(result.pixCopyPaste) THEN result.pixCopyPaste
        ELSE FirstTruthy(<<result.qrCodePix, result.pix_copy_paste,
                           result.copyPaste, result.code>>)

\* Lines 143-180: the entry pix_data['qr_code_image'] is set from.
QrCodeFound(result) ==
    IF result.pix_is_dict /\ Truthy(result.pix_pixQrCode)
    THEN result.pix_pixQrCode
    ELSE IF Truthy(result.pixQrCode) THEN result.pixQrCode
    ELSE FirstTruthy(<<result.qrCode, result.qr_code_image,
                       result.base64Image>>)

\* result.get(key, default) for an entry.
GetOr(entry, default) == IF entry = <<>> THEN default ELSE entry[1]

\* A method raised: nothing is returned.
MediusRaised(error) ==
    [raises |-> TRUE, error |-> error, keys |-> {}, success |-> FALSE,
     transaction_id |-> <<>>, order_id |-> <<>>, amount |-> 0,
     pix_code |-> <<>>, qr_code_image |-> <<>>, status |-> ""]

\* The dict {'success': False, 'error': ...}.
MediusFailed(error) ==
    [raises |-> FALSE, error |-> error, keys |-> {"success", "error"},
     success |-> FALSE, transaction_id |-> <<>>, order_id |-> <<>>,
     amount |-> 0, pix_code |-> <<>>, qr_code_image |-> <<>>, status |-> ""]

\* The URL of the one request a method sends.
PostTransactions == "POST /transactions"
GetTransaction == "GET /transactions/{id}"

\* Lines 40-219.  payment is the dict given, tid what
\* _generate_transaction_id makes, answer what requests.post brings: a
\* network error, or a response with a status and a body that decodes as
\* JSON or does not.  The result holds what is returned or that it raised,
\* and the requests sent.  Amounts are in thousandths of a real.
create_pix_transaction(payment, tid, answer) ==
    IF MissingFields(payment) # <<>>
    THEN [result |-> MediusRaised("Erro ao processar pagamento: campos"),
          http_requests |-> <<>>]
    ELSE IF answer.kind = "network_error"
    THEN [result |-> MediusRaised("Erro de conectividade"),
          http_requests |-> <<PostTransactions>>]
    ELSE IF answer.status \notin {200, 201}
    THEN [result |-> MediusRaised("Erro ao processar pagamento: status"),
          http_requests |-> <<PostTransactions>>]
    ELSE IF ~answer.json
    THEN [result |-> MediusRaised("Erro ao processar pagamento: resposta"),
          http_requests |-> <<PostTransactions>>]
    ELSE [result |->
              [raises |-> FALSE, error |-> "",
               keys |-> {"success", "transaction_id", "order_id", "amount",
                         "status", "created_at", "pix_code",
                         "qr_code_image"},
               success |-> TRUE,
               transaction_id |-> GetOr(answer.body.id, tid),
               order_id |-> GetOr(answer.body.id, tid),
               amount |-> payment.amount[1],
               pix_code |-> GetOr(PixCodeFound(answer.body), <<>>),
               qr_code_image |-> GetOr(QrCodeFound(answer.body), <<>>),
               status |-> GetOr(answer.body.status, "pending")],
          http_requests |-> <<PostTransactions>>]

\* get_transaction_by_id when a network error is not caught.
LookupRaisingWhenUnreachable(tid, answer) ==
    IF answer.kind = "network_error"
    THEN [result |-> MediusRaised("network_error"),
          http_requests |-> <<GetTransaction>>]
    ELSE [result |-> MediusFailed("Transacao nao encontrada"),
          http_requests |-> <<GetTransaction>>]

\* Lines 221-259.  amount of the body is in centavos; a body whose amount
\* is no number makes the division of line 243 fail.
get_transaction_by_id(tid, answer) ==
    IF answer.kind = "network_error"
    THEN [result |-> MediusFailed("network_error"),
          http_requests |-> <<GetTransaction>>]
    ELSE IF answer.status # 200
    THEN [result |-> MediusFailed("Transacao nao encontrada"),
          http_requests |-> <<GetTransaction>>]
    ELSE IF ~answer.json
    THEN [result |-> MediusFailed("json"),
          http_requests |-> <<GetTransaction>>]
    ELSE IF ~answer.body.amount_is_number
    THEN [result |-> MediusFailed("unsupported operand"),
          http_requests |-> <<GetTransaction>>]
    ELSE [result |->
              [raises |-> FALSE, error |-> "",
               keys |-> {"success", "transaction_id", "order_id", "amount",
                         "pix_code", "qr_code_image", "status",
                         "created_at", "description"},
               success |-> TRUE,
               transaction_id |-> GetOr(answer.body.id, tid),
               order_id |-> GetOr(answer.body.id, tid),
               amount |-> GetOr(answer.body.amount, 0) * 10,
               pix_code |->
                   GetOr(answer.body.pixCopyPaste,
                         GetOr(answer.body.pix_copy_paste,
                               GetOr(answer.body.qrCodePix, <<>>))),
               qr_code_image |->
                   GetOr(answer.body.pixQrCode,
                         GetOr(answer.body.qr_code_image,
                               GetOr(answer.body.qrCode, <<>>))),
               status |-> GetOr(answer.body.status, "pending")],
          http_requests |-> <<GetTransaction>>]

\* Lines 261-295.  The amount is passed on as it came (0 stands for None).
check_transaction_status(tid, answer) ==
    IF answer.kind = "network_error"
    THEN [result |-> MediusFailed("network_error"),
          http_requests |-> <<GetTransaction>>]
    ELSE IF answer.status # 200
    THEN [result |-> MediusFailed("Erro ao verificar status"),
          http_requests |-> <<GetTransaction>>]
    ELSE IF ~answer.json
    THEN [result |-> MediusFailed("json"),
          http_requests |-> <<GetTransaction>>]
    ELSE [result |->
              [raises |-> FALSE, error |-> "",
               keys |-> {"success", "status", "transaction_id", "amount",
                         "paid_at", "data"},
               success |-> TRUE,
               transaction_id |-> tid,
               order_id |-> <<>>,
               amount |-> GetOr(answer.body.amount, 0) * 10,
               pix_code |-> <<>>,
               qr_code_image |-> <<>>,
               status |-> GetOr(answer.body.status, "unknown")],
          http_requests |-> <<GetTransaction>>]

\* A body with none of the keys the methods read.
EmptyBody ==
    [id |-> <<>>, status |-> <<>>, amount |-> <<>>, amount_is_number |-> TRUE,
     pix_is_dict |-> FALSE, pix_qrcode |-> <<>>, pix_pixCopyPaste |-> <<>>,
     pix_pixQrCode |-> <<>>, pixCopyPaste |-> <<>>, pixQrCode |-> <<>>,
     qrCodePix |-> <<>>, pix_copy_paste |-> <<>>, copyPaste |-> <<>>,
     code |-> <<>>, qrCode |-> <<>>, qr_code_image |-> <<>>,
     base64Image |-> <<>>]

\* The text a field of a body holds: "000201" and a digit of its own, so
\* that the field a result was taken from can be told.
TextOf(n) == <<48, 48, 48, 50, 48, 49, 48 + n>>

\* A key that is absent, or there with its text.
Maybe(n) == {<<>>, <<TextOf(n)>>}

\* A key that is absent, there with '', or there with its text.
MaybeEmpty(n) == {<<>>, << <<>> >>, <<TextOf(n)>>}

\* The id of the gateway, "tx_9f1c2d3e", and the one the client makes,
\* "MP1700000000a1b2c3d4".
MediusGatewayId ==
    <<116, 120, 95, 57, 102, 49, 99, 50, 100, 51, 101>>

MediusClientId ==
    <<77, 80, 49, 55, 48, 48, 48, 48, 48, 48, 48, 48, 97, 49, 98, 50, 99, 51,
      100, 52>>

\* The pix object of a body: none, or a dict with qrcode, pixCopyPaste and
\* pixQrCode, each there or not.
PixObjects ==
    {[pix_is_dict |-> FALSE, pix_qrcode |-> <<>>, pix_pixCopyPaste |-> <<>>,
      pix_pixQrCode |-> <<>>]}
    \cup
    [pix_is_dict : {TRUE}, pix_qrcode : Maybe(1), pix_pixCopyPaste : Maybe(2),
     pix_pixQrCode : {<<>>, <<GatewayQrImage>>}]

\* The picture keys of the root: none, one of them, or all.
RootImages ==
    {[pixQrCode |-> <<>>, qrCode |-> <<>>, qr_code_image |-> <<>>,
      base64Image |-> <<>>],
     [pixQrCode |-> <<TextOf(8)>>, qrCode |-> <<>>, qr_code_image |-> <<>>,
      base64Image |-> <<>>],
     [pixQrCode |-> <<>>, qrCode |-> <<TextOf(9)>>, qr_code_image |-> <<>>,
      base64Image |-> <<>>],
     [pixQrCode |-> <<>>, qrCode |-> <<>>, qr_code_image |-> <<TextOf(10)>>,
      base64Image |-> <<>>],
     [pixQrCode |-> <<>>, qrCode |-> <<>>, qr_code_image |-> <<>>,
      base64Image |-> <<TextOf(11)>>],
     [pixQrCode |-> <<TextOf(8)>>, qrCode |-> <<TextOf(9)>>,
      qr_code_image |-> <<TextOf(10)>>, base64Image |-> <<TextOf(11)>>]}

\* Bodies of the answer to POST /transactions.
CreateBodies ==
    {[EmptyBody EXCEPT
          !.id = i, !.pix_is_dict = p.pix_is_dict,
          !.pix_qrcode = p.pix_qrcode,
          !.pix_pixCopyPaste = p.pix_pixCopyPaste,
          !.pix_pixQrCode = p.pix_pixQrCode,
          !.pixCopyPaste = c3, !.qrCodePix = c4, !.pix_copy_paste = c5,
          !.copyPaste = c6, !.code = c7,
          !.pixQrCode = q.pixQrCode, !.qrCode = q.qrCode,
          !.qr_code_image = q.qr_code_image,
          !.base64Image = q.base64Image] :
        i \in {<<>>, <<MediusGatewayId>>}, p \in PixObjects,
        c3 \in MaybeEmpty(3), c4 \in Maybe(4), c5 \in Maybe(5),
        c6 \in Maybe(6), c7 \in Maybe(7), q \in RootImages}

\* Bodies of the answer to GET /transactions/{id}; in the last ones the
\* amount is no number.
LookupBodies ==
    {[EmptyBody EXCEPT
          !.id = i, !.amount = a,
          !.status = s,
          !.pixCopyPaste = c3, !.pix_copy_paste = c5, !.qrCodePix = c4,
          !.pixQrCode = q.pixQrCode, !.qrCode = q.qrCode,
          !.qr_code_image = q.qr_code_image] :
        i \in {<<>>, <<MediusGatewayId>>},
        a \in {<<>>, <<13842>>},
        s \in {<<>>, <<"paid">>},
        c3 \in MaybeEmpty(3), c5 \in MaybeEmpty(5), c4 \in Maybe(4),
        q \in RootImages}
    \cup
    {[EmptyBody EXCEPT
          !.amount = <<0>>, !.amount_is_number = FALSE,
          !.pixCopyPaste = c3] : c3 \in MaybeEmpty(3)}

\* What the HTTP call brings.
NetworkError ==
    [kind |-> "network_error", status |-> 0, json |-> FALSE,
     body |-> EmptyBody]

Response(status, json, body) ==
    [kind |-> "response", status |-> status, json |-> json, body |-> body]

\* Answers without a usable body: no connection, an error status with or
\* without JSON, a 2xx status with a body that is no JSON.
FailedAnswers ==
    {NetworkError}
    \cup {Response(s, j, EmptyBody) : s \in {400, 404, 500}, j \in BOOLEAN}
    \cup {Response(s, FALSE, EmptyBody) : s \in {200, 201}}

CreateAnswers ==
    FailedAnswers \cup {Response(s, TRUE, b) : s \in {200, 201},
                                               b \in CreateBodies}

LookupAnswers ==
    FailedAnswers \cup {Response(200, TRUE, b) : b \in LookupBodies}
                  \cup {Response(201, TRUE, b) : b \in {EmptyBody}}

\* The dict given to create_pix_transaction: each required key absent,
\* falsy or given.
PaymentData ==
    [amount : {<<>>, <<0>>, <<FixedAmount>>},
     customer_name :
         {<<>>, << <<>> >>,
          << <<77, 65, 82, 73, 65, 32, 68, 65, 32, 83, 73, 76, 86, 65>> >>},
     customer_cpf :
         {<<>>, << <<>> >>,
          << <<49, 50, 51, 46, 52, 53, 54, 46, 55, 56, 57, 45, 48, 57>> >>}]

NoPaymentData ==
    [amount |-> <<>>, customer_name |-> <<>>, customer_cpf |-> <<>>]

\* The calls of create_pix_transaction looked at: every data with the
\* failed answers, and the data of /generate-pix with every answer.
CreateCalls ==
    {[op |-> "create_pix_transaction", data |-> d,
      transaction_id |-> MediusClientId, answer |-> a] :
        d \in PaymentData, a \in FailedAnswers \cup
                                 {Response(200, TRUE, EmptyBody)}}
    \cup
    {[op |-> "create_pix_transaction", data |-> d,
      transaction_id |-> MediusClientId, answer |-> a] :
        d \in {x \in PaymentData : MissingFields(x) = <<>>},
        a \in CreateAnswers}

LookupCalls(op) ==
    {[op |-> op, data |-> NoPaymentData, transaction_id |-> MediusGatewayId,
      answer |-> a] : a \in LookupAnswers}

NoCall ==
    [op |-> "none", data |-> NoPaymentData, transaction_id |-> <<>>,
     answer |-> NetworkError]

\* An API object, no method called yet.
InitMedius ==
    /\ medius_pc = "idle"
    /\ medius_call = NoCall
    /\ medius_result = MediusRaised("")
    /\ http_requests = <<>>

\* One call of create_pix_transaction, from entry to return or raise.
CreatePixTransaction ==
    /\ medius_pc = "idle"
    /\ \E c \in CreateCalls :
        LET out == create_pix_transaction(c.data, c.transaction_id, c.answer)
        IN  /\ medius_call' = c
            /\ medius_result' = out.result
            /\ http_requests' = out.http_requests
    /\ medius_pc' = "done"
    /\ UNCHANGED <<genVars, crcVars, repeatVars, concVars, appVars,
                   chargeVars>>

\* One call of get_transaction_by_id.
GetTransactionById ==
    /\ medius_pc = "idle"
    /\ \E c \in LookupCalls("get_transaction_by_id") :
        LET out == get_transaction_by_id(c.transaction_id, c.answer)
        IN  /\ medius_call' = c
            /\ medius_result' = out.result
            /\ http_requests' = out.http_requests
    /\ medius_pc' = "done"
    /\ UNCHANGED <<genVars, crcVars, repeatVars, concVars, appVars,
                   chargeVars>>

\* One call of check_transaction_status.
CheckTransactionStatus ==
    /\ medius_pc = "idle"
    /\ \E c \in LookupCalls("check_transaction_status") :
        LET out == check_transaction_status(c.transaction_id, c.answer)
        IN  /\ medius_call' = c
            /\ medius_result' = out.result
            /\ http_requests' = out.http_requests
    /\ medius_pc' = "done"
    /\ UNCHANGED <<genVars, crcVars, repeatVars, concVars, appVars,
                   chargeVars>>

\* The caller has the result; the object is ready for the next call.
MediusFinish ==
    /\ medius_pc = "done"
    /\ medius_pc' = "idle"
    /\ medius_call' = NoCall
    /\ medius_result' = MediusRaised("")
    /\ http_requests' = <<>>
    /\ UNCHANGED <<genVars, crcVars, repeatVars, concVars, appVars,
                   chargeVars>>

NextMedius ==
    \/ CreatePixTransaction
    \/ GetTransactionById
    \/ CheckTransactionStatus
    \/ MediusFinish

\* ------------------------------------------------------------------------
\* Specifications
\* ------------------------------------------------------------------------

Init ==
    /\ InitGenerator /\ InitCrc /\ InitRepeat /\ InitConc /\ InitApp
    /\ InitCharge /\ InitMedius

\* Calls of generate_pix_code, one at a time, each in one step.
Spec == Init /\ [][Next]_vars

\* Calls of _calculate_crc16_ccitt, statement by statement.
SpecCrc == Init /\ [][NextCrc]_vars

\* Calls of generate_pix_code in a row on one generator, remembered.
SpecRepeat == Init /\ [][NextRepeat]_vars

\* Calls of generate_pix_code by several threads at once.
SpecConc == Init /\ [][NextConc]_vars

\* Requests to /generate-pix in one browser session.
SpecApp == Init /\ [][NextApp]_vars

\* Calls of NewPixAPI.create_charge.
SpecCharge == Init /\ [][NextCharge]_vars

\* Calls of the methods of MediusPagAPI.
SpecMedius == Init /\ [][NextMedius]_vars

\* ------------------------------------------------------------------------
\* Reference CRC16-CCITT-FALSE, by polynomial division over GF(2)
\* ------------------------------------------------------------------------
\* A polynomial over GF(2) is the set of the exponents of its terms; the sum
\* of two polynomials is the symmetric difference of the sets.

PolyAdd(p, q) == (p \ q) \cup (q \ p)

\* x^16 + x^12 + x^5 + 1
RefGenerator == {16, 12, 5, 0}

\* The message, most significant bit of the first byte first, times x^16.
RefMessage(bytes) ==
    UNION {{16 + 8 * (Len(bytes) - k) + j :
               j \in {i \in 0..7 : (bytes[k] \div (2 ^ i)) % 2 = 1}} :
           k \in 1..Len(bytes)}

\* The initial value 0xFFFF, under the first 16 bits of the message.
RefInitial(bytes) == {8 * Len(bytes) + j : j \in 0..15}

\* p with its terms of degree hi down to lo removed by adding multiples of
\* the generator, highest degree first.
RECURSIVE RefReduce(_, _, _)
RefReduce(p, hi, lo) ==
    IF hi < lo \/ p = {} THEN p
    ELSE IF hi = lo
         THEN IF hi \in p THEN PolyAdd(p, {e + (hi - 16) : e \in RefGenerator}) ELSE p
    ELSE RefReduce(RefReduce(p, hi, ((hi + lo) \div 2) + 1), (hi + lo) \div 2, lo)

RECURSIVE PolyValue(_, _)
PolyValue(p, k) ==
    IF k < 0 THEN 0
    ELSE (IF k \in p THEN 2 ^ k ELSE 0) + PolyValue(p, k - 1)

\* The remainder as a number: no reflection, no final XOR.
RefCrcValue(bytes) ==
    PolyValue(RefReduce(PolyAdd(RefMessage(bytes), RefInitial(bytes)),
                        8 * Len(bytes) + 15, 16), 15)

\* "0123456789ABCDEF"
RefHexDigits == <<48, 49, 50, 51, 52, 53, 54, 55, 56, 57, 65, 66, 67, 68, 69, 70>>

RefCrcText(bytes) ==
    LET v == RefCrcValue(bytes)
    IN  <<RefHexDigits[(v \div 4096) + 1], RefHexDigits[((v \div 256) % 16) + 1],
          RefHexDigits[((v \div 16) % 16) + 1], RefHexDigits[(v % 16) + 1]>>

\* ------------------------------------------------------------------------
\* Claims
\* ------------------------------------------------------------------------

\* C1: for every input string, the empty one included, the text returned by
\* _calculate_crc16_ccitt is the reference CRC16-CCITT-FALSE of the UTF-8
\* bytes of the string (polynomial 0x1021, initial value 0xFFFF, most
\* significant bit first, no reflection, no final XOR).
C1_CrcMatchesReference ==
    crc_pc = "done" =>
        /\ crc_text = RefCrcText(EncodeUtf8(data))
        /\ calculate_crc16_ccitt(data) = RefCrcText(EncodeUtf8(data))

\* A call on a string with multi-byte characters has returned.
C1_Witness ==
    /\ crc_pc = "done"
    /\ Len(data) = MaxCrcLen
    /\ Len(EncodeUtf8(data)) > Len(data)
    /\ crc_text = RefCrcText(EncodeUtf8(data))

\* C2: _calculate_crc16_ccitt of the nine characters "123456789" is "29B1".
C2_CheckValue ==
    (crc_pc = "done" /\ data = CheckString) => crc_text = <<50, 57, 66, 49>>

\* The call on "123456789" has returned "29B1".
C2_Witness == crc_pc = "done" /\ data = CheckString /\ crc_text = <<50, 57, 66, 49>>

\* The string before the last four characters of the returned code.
Payload == SubSeq(pix_code, 1, Len(pix_code) - 4)

\* The last four characters of the returned code.
Checksum == SubSeq(pix_code, Len(pix_code) - 3, Len(pix_code))

\* The fields the returned call fed to the formatter at the top level.
CallFields ==
    TopFields(Self, args.amount, args.recipient_key, args.recipient_name,
              transaction_id, args.description)

\* C3: every returned string is P + C, where P is everything emitted before
\* the checksum and ends with "6304", and C is _calculate_crc16_ccitt(P);
\* nothing follows the 4 checksum characters.
C3_ChecksumOverHeader ==
    pc = "returned" =>
        /\ Len(pix_code) >= 8
        /\ Payload = FormatFields(CallFields) \o CrcHeader
        /\ SubSeq(Payload, Len(Payload) - 3, Len(Payload)) = CrcHeader
        /\ Checksum = calculate_crc16_ccitt(Payload)
        /\ Len(Checksum) = 4

\* A call with a positive amount has returned a code.
C3_Witness ==
    /\ pc = "returned"
    /\ args.amount > 0
    /\ Len(pix_code) > 8
    /\ SubSeq(Payload, Len(Payload) - 3, Len(Payload)) = CrcHeader

\* ------------------------------------------------------------------------
\* A minimal TLV reader, for the claims about re-parsing
\* ------------------------------------------------------------------------

IsDigit(c) == c >= 48 /\ c <= 57

\* Reads s field by field: a 2-character tag, a 2-digit length, then that
\* many characters of value.  ok says that the whole of s was consumed;
\* fields are the fields read before the reader stopped.
RECURSIVE ParseTLV(_)
ParseTLV(s) ==
    IF Len(s) = 0 THEN [ok |-> TRUE, fields |-> <<>>]
    ELSE IF Len(s) < 4 \/ ~IsDigit(s[3]) \/ ~IsDigit(s[4])
         THEN [ok |-> FALSE, fields |-> <<>>]
    ELSE IF Len(s) < 4 + (10 * (s[3] - 48) + (s[4] - 48))
         THEN [ok |-> FALSE, fields |-> <<>>]
    ELSE [ok |-> ParseTLV(SubSeq(s, 5 + (10 * (s[3] - 48) + (s[4] - 48)), Len(s))).ok,
          fields |->
              <<Field(SubSeq(s, 1, 2),
                      SubSeq(s, 5, 4 + (10 * (s[3] - 48) + (s[4] - 48))))>>
              \o ParseTLV(SubSeq(s, 5 + (10 * (s[3] - 48) + (s[4] - 48)), Len(s))).fields]

Tags(fs) == [i \in 1..Len(fs) |-> fs[i].tag]

\* The value of the first field of fs with the given tag (<<>> when none).
ValueOf(fs, tag) ==
    IF \E i \in 1..Len(fs) : fs[i].tag = tag
    THEN fs[CHOOSE i \in 1..Len(fs) :
                /\ fs[i].tag = tag
                /\ \A j \in 1..(i - 1) : fs[j].tag # tag].value
    ELSE <<>>

\* The fields the returned call fed to the formatter inside tags 26 and 62.
CallMerchantInfoFields == MerchantInfoFields(args.recipient_key, args.description)

CallAdditionalDataFields == AdditionalDataFields(transaction_id)

\* Every field the returned call fed to the formatter.
CallAllFields == CallFields \o CallMerchantInfoFields \o CallAdditionalDataFields

\* C4: parsing the output as top-level TLV fields yields the tags in exactly
\* the order 00, 01, 26, 52, 53, [54 only when amount > 0], 58, 59, 60, 62,
\* 63, each exactly once and no other tag.
C4_TopLevelTagOrder ==
    pc = "returned" =>
        /\ ParseTLV(pix_code).ok
        /\ Tags(ParseTLV(pix_code).fields) =
               <<Tag(0), Tag(1), Tag(26), Tag(52), Tag(53)>>
               \o (IF args.amount > 0 THEN <<Tag(54)>> ELSE <<>>)
               \o <<Tag(58), Tag(59), Tag(60), Tag(62), Tag(63)>>

\* C5: every field is tag + LL + value, where LL is the zero-padded
\* two-digit decimal byte length of the value in UTF-8, also when the value
\* holds multi-byte characters.
C5_ByteLengthPrefix ==
    pc = "returned" =>
        \A i \in 1..Len(CallAllFields) :
            format_emv_field(CallAllFields[i].tag, CallAllFields[i].value) =
                CallAllFields[i].tag
                \o Format02d(Len(EncodeUtf8(CallAllFields[i].value)))
                \o CallAllFields[i].value

\* C6: in every returned string every field, top-level or nested under 26
\* and 62, has a value of length at most 99 and a length prefix of exactly
\* two decimal digits.
C6_FieldLengths ==
    pc = "returned" =>
        \A i \in 1..Len(CallAllFields) :
            /\ Len(CallAllFields[i].value) <= 99
            /\ Len(format_emv_field(CallAllFields[i].tag, CallAllFields[i].value))
                   = 4 + Len(CallAllFields[i].value)

\* C7: when a value to be encoded exceeds 99 (a recipient_key long enough
\* that the block under tag 26 is longer than 99), generate_pix_code fails
\* and returns no payload.
C7_TooLongRejected ==
    ~ /\ pc = "returned"
      /\ Len(FormatFields(CallMerchantInfoFields)) > 99
      /\ pix_code # <<>>

\* C8: re-parsing the output TLV by TLV, and again inside tags 26 and 62,
\* consumes the whole string and recovers exactly the (tag, value) sequence
\* fed to the field formatter.
C8_RoundTrip ==
    pc = "returned" =>
        /\ ParseTLV(pix_code).ok
        /\ ParseTLV(pix_code).fields = CallFields \o <<Field(Tag(63), Checksum)>>
        /\ ParseTLV(ValueOf(ParseTLV(pix_code).fields, Tag(26))).ok
        /\ ParseTLV(ValueOf(ParseTLV(pix_code).fields, Tag(26))).fields
               = CallMerchantInfoFields
        /\ ParseTLV(ValueOf(ParseTLV(pix_code).fields, Tag(62))).ok
        /\ ParseTLV(ValueOf(ParseTLV(pix_code).fields, Tag(62))).fields
               = CallAdditionalDataFields

\* The number a string of decimal digits denotes.
RECURSIVE DecValue(_)
DecValue(digits) ==
    IF Len(digits) = 0 THEN 0
    ELSE 10 * DecValue(SubSeq(digits, 1, Len(digits) - 1)) + (digits[Len(digits)] - 48)

\* Digits, a '.', two digits: no sign, no thousands separator, no currency
\* symbol.
IsTwoDecimalText(v) ==
    /\ Len(v) >= 4
    /\ v[Len(v) - 2] = 46
    /\ \A i \in (1..Len(v)) \ {Len(v) - 2} : IsDigit(v[i])

\* The cents a two-decimal text denotes.
CentsOfText(v) ==
    100 * DecValue(SubSeq(v, 1, Len(v) - 3)) + DecValue(SubSeq(v, Len(v) - 1, Len(v)))

\* Where the text of the fields 00, 01, 26, 52 and 53 ends in the output.
AfterCurrency == Len(FormatFields(SubSeq(CallFields, 1, 5)))

\* The indices of the top-level fields with tag 54.
AmountIndices == {i \in 1..Len(CallFields) : CallFields[i].tag = Tag(54)}

\* C9: the Transaction Amount field (tag 54) is emitted if and only if
\* amount > 0.  With amount > 0 there is exactly one, between field 53 and
\* field 58, and its value is the amount with exactly two decimal places, a
\* '.', no thousands separator and no currency symbol (138.42 gives
\* "5406138.42"); otherwise field 58 follows field 53 directly.
C9_AmountField ==
    pc = "returned" =>
        /\ (args.amount > 0) <=> (AmountIndices # {})
        /\ CallFields[5].tag = Tag(53)
        /\ ParseTLV(pix_code).ok =>
               ((args.amount > 0) <=>
                    (\E i \in 1..Len(ParseTLV(pix_code).fields) :
                         ParseTLV(pix_code).fields[i].tag = Tag(54)))
        /\ args.amount > 0 =>
               /\ AmountIndices = {6}
               /\ CallFields[7].tag = Tag(58)
               /\ IsTwoDecimalText(CallFields[6].value)
               /\ 10 * CentsOfText(CallFields[6].value) - args.amount \in -5..5
               /\ SubSeq(pix_code, AfterCurrency + 1,
                         AfterCurrency + 4 + Len(CallFields[6].value))
                      = Tag(54) \o Format02d(Len(CallFields[6].value))
                        \o CallFields[6].value
               /\ SubSeq(pix_code, AfterCurrency + 5 + Len(CallFields[6].value),
                         AfterCurrency + 6 + Len(CallFields[6].value)) = Tag(58)
        /\ args.amount <= 0 =>
               /\ CallFields[6].tag = Tag(58)
               /\ SubSeq(pix_code, AfterCurrency + 1, AfterCurrency + 2) = Tag(58)
        /\ args.amount = 138420 =>
               SubSeq(pix_code, AfterCurrency + 1, AfterCurrency + 10)
                   = <<53, 52, 48, 54, 49, 51, 56, 46, 52, 50>>

\* A call with amount 138.42 has returned a code holding "5406138.42".
C9_Witness ==
    /\ pc = "returned"
    /\ args.amount = 138420
    /\ SubSeq(pix_code, AfterCurrency + 1, AfterCurrency + 10)
           = <<53, 52, 48, 54, 49, 51, 56, 46, 52, 50>>

\* C10: a negative amount is rejected before any encoding happens, so no
\* payment code is returned for it.
C10_NegativeAmountRejected ==
    ~ (pc = "returned" /\ args.amount < 0 /\ pix_code # <<>>)

\* ------------------------------------------------------------------------
\* Truncation of the recipient name
\* ------------------------------------------------------------------------

\* The value the returned call placed under tag 59.
CallNameValue == ValueOf(CallFields, Tag(59))

\* C11: the value under tag 59 is the first 25 bytes of recipient_name in
\* UTF-8 (the whole name when it is shorter), and a name of 40 characters
\* gives a length prefix of 25 and the first 25 characters of the name.
C11_NameFirstBytes ==
    pc = "returned" =>
        /\ EncodeUtf8(CallNameValue)
               = Take(EncodeUtf8(args.recipient_name), TextLimit)
        /\ Len(args.recipient_name) = LongNameLen =>
               /\ CallNameValue = SubSeq(args.recipient_name, 1, TextLimit)
               /\ SubSeq(format_emv_field(Tag(59), CallNameValue), 1, 4)
                      = Tag(59) \o <<50, 53>>

\* ------------------------------------------------------------------------
\* Determinism
\* ------------------------------------------------------------------------

MerchantInfoStart(v) == 12 + 2 + Len(Format02d(Len(v))) + 1

\* The value the claim describes for tag 26: "00" + "br.gov.bcb.pix", "01" +
\* the key as given, and "02" + the description (its first 25 characters)
\* when there is one.
ExpectedMerchantInfo ==
    (Tag(0) \o <<49, 52>> \o PixGui)
    \o (Tag(1) \o Format02d(Len(args.recipient_key)) \o args.recipient_key)
    \o (IF args.description = <<>> THEN <<>>
        ELSE Tag(2)
             \o Format02d(Len(SubSeq(args.description, 1,
                    IF Len(args.description) < 25 THEN Len(args.description)
                    ELSE 25)))
             \o SubSeq(args.description, 1,
                    IF Len(args.description) < 25 THEN Len(args.description)
                    ELSE 25))

ShortTransactionId ==
    SubSeq(transaction_id, 1,
           IF Len(transaction_id) < 25 THEN Len(transaction_id) ELSE 25)

\* The value the claim describes for tag 62: "05", the length, the id.
ExpectedAdditionalData ==
    Tag(5) \o Format02d(Len(ShortTransactionId)) \o ShortTransactionId

\* The last field of the returned code before "6304" and the checksum.
LastField(n) == SubSeq(pix_code, Len(pix_code) - 8 - n + 1, Len(pix_code) - 8)

\* C14: the value of tag 62 is exactly one sub-field, with tag 05 and the
\* first 25 characters of the transaction id as value, so the value of
\* field 62 is never longer than 29.
C14_AdditionalData ==
    pc = "returned" =>
        /\ ValueOf(CallFields, Tag(62)) = ExpectedAdditionalData
        /\ Len(ValueOf(CallFields, Tag(62))) <= 29
        /\ Len(ParseTLV(ValueOf(CallFields, Tag(62))).fields) = 1
        /\ ParseTLV(ValueOf(CallFields, Tag(62))).fields[1]
               = Field(Tag(5), ShortTransactionId)
        /\ LastField(4 + Len(ExpectedAdditionalData))
               = Tag(62) \o Format02d(Len(ExpectedAdditionalData))
                 \o ExpectedAdditionalData

\* A call with a transaction id longer than 25 has returned.
C14_Witness ==
    /\ pc = "returned"
    /\ Len(transaction_id) = LongIdLen
    /\ Len(ValueOf(CallFields, Tag(62))) = 29

\* "000201" followed by "010212"
FixedHead == <<48, 48, 48, 50, 48, 49, 48, 49, 48, 50, 49, 50>>

\* "52040000" followed by "5303986"
FixedCategoryCurrency ==
    <<53, 50, 48, 52, 48, 48, 48, 48, 53, 51, 48, 51, 57, 56, 54>>

\* "5802BR"
FixedCountry == <<53, 56, 48, 50, 66, 82>>

\* "6008BRASILIA"
FixedCity == <<54, 48, 48, 56, 66, 82, 65, 83, 73, 76, 73, 65>>

\* Where field 52 starts in the returned code: after the head and field 26.
CategoryStart ==
    12 + 2 + Len(Format02d(Len(ValueOf(CallFields, Tag(26)))))
       + Len(ValueOf(CallFields, Tag(26))) + 1

\* Where field 58 starts: after fields 52 and 53 and the amount field, if
\* there is one.
CountryStart ==
    CategoryStart + 15
    + (IF args.amount > 0 THEN 4 + Len(ValueOf(CallFields, Tag(54))) ELSE 0)

\* Where field 60 starts: after field 58 and field 59.
CityStart == CountryStart + 6 + 4 + Len(ValueOf(CallFields, Tag(59)))

\* C15: whatever the arguments, the returned code starts with "000201" and
\* "010212" and carries 52 = "0000", 53 = "986", 58 = "BR" and 60 = the
\* configured city cut to 15 characters, "6008BRASILIA" as configured.
C15_ConstantFields ==
    pc = "returned" =>
        /\ SubSeq(pix_code, 1, 12) = FixedHead
        /\ SubSeq(pix_code, CategoryStart, CategoryStart + 14)
               = FixedCategoryCurrency
        /\ SubSeq(pix_code, CountryStart, CountryStart + 5) = FixedCountry
        /\ SubSeq(pix_code, CityStart, CityStart + 11) = FixedCity
        /\ FixedCity
               = Tag(60)
                 \o Format02d(Len(SubSeq(merchant_city, 1,
                        IF Len(merchant_city) < 15 THEN Len(merchant_city)
                        ELSE 15)))
                 \o SubSeq(merchant_city, 1,
                        IF Len(merchant_city) < 15 THEN Len(merchant_city)
                        ELSE 15)
        /\ SubSeq(pix_code, CityStart + 12, CityStart + 13) = Tag(62)

\* A call with an amount, the long name and a description has returned.
C15_Witness ==
    /\ pc = "returned"
    /\ args.amount > 0
    /\ Len(args.recipient_name) = LongNameLen
    /\ args.description # <<>>
    /\ SubSeq(pix_code, CityStart, CityStart + 11) = FixedCity

\* ------------------------------------------------------------------------
\* Side effects
\* ------------------------------------------------------------------------

\* The configuration a newly constructed generator has.
FreshConfig ==
    [merchant_name |-> <<82, 69, 67, 69, 73, 84, 65, 32, 70, 69, 68, 69, 82,
                         65, 76>>,
     merchant_city |-> <<66, 82, 65, 83, 73, 76, 73, 65>>,
     currency_code |-> <<57, 56, 54>>,
     country_code |-> <<66, 82>>]

\* What a newly constructed generator returns for the arguments and the
\* transaction id of the i-th call.
FreshResult(i) ==
    (FormatFields(TopFields(FreshConfig, calls[i].args.amount,
                            calls[i].args.recipient_key,
                            calls[i].args.recipient_name,
                            calls[i].transaction_id,
                            calls[i].args.description)) \o CrcHeader)
    \o calculate_crc16_ccitt(
           FormatFields(TopFields(FreshConfig, calls[i].args.amount,
                                  calls[i].args.recipient_key,
                                  calls[i].args.recipient_name,
                                  calls[i].transaction_id,
                                  calls[i].args.description)) \o CrcHeader)

\* C16: after any sequence of calls the four configuration attributes are
\* what __init__ set, and what a call returns does not depend on the calls
\* made before it: it is what a new generator returns for the same
\* arguments and transaction id, wherever in the sequence the call stands.
C16_NoSideEffects ==
    /\ Self = FreshConfig
    /\ calls # <<>> => calls[Len(calls)].pix_code = FreshResult(Len(calls))
    /\ \A i \in DOMAIN calls : \A j \in DOMAIN calls :
          (/\ calls[i].args = calls[j].args
           /\ calls[i].transaction_id = calls[j].transaction_id)
              => calls[i].pix_code = calls[j].pix_code

\* A call has returned after an earlier call with other arguments.
C16_Witness ==
    /\ Len(calls) = 2
    /\ calls[1].args # calls[2].args
    /\ calls[2].args.description # <<>>
    /\ calls[2].pix_code = FreshResult(2)
    /\ Self = FreshConfig

\* ------------------------------------------------------------------------
\* Concurrency
\* ------------------------------------------------------------------------

\* What the call of thread t returns when it runs alone.
AloneResult(t) ==
    (FormatFields(ThreadFields(t)) \o CrcHeader)
    \o calculate_crc16_ccitt(FormatFields(ThreadFields(t)) \o CrcHeader)

\* The string thread t has built so far holds its own fields and nothing
\* else.
OwnPrefix(t) ==
    /\ th_pc[t] = "fields" =>
           th_buf[t] = FormatFields(SubSeq(ThreadFields(t), 1, th_next[t] - 1))
    /\ th_pc[t] \in {"crc", "append"} =>
           th_buf[t] = FormatFields(ThreadFields(t)) \o CrcHeader
    /\ th_pc[t] = "returned" =>
           /\ SubSeq(th_buf[t], 1, Len(th_buf[t]) - 4)
                  = FormatFields(ThreadFields(t)) \o CrcHeader
           /\ SubSeq(th_buf[t], Len(th_buf[t]) - 3, Len(th_buf[t])) = th_crc[t]

\* C17: when calls with explicit transaction ids run concurrently on one
\* generator and their steps interleave in any way, no call sees or spoils
\* the partly built string of another, and each call returns the string it
\* returns when run alone.
C17_Isolated ==
    /\ [](\A t \in Threads : OwnPrefix(t))
    /\ [][\A t \in Threads :
            (th_pc[t] # "returned" /\ th_pc'[t] = "returned")
                => th_buf'[t] = AloneResult(t)]_vars

\* One call has returned while another is half way through its fields.
C17_Witness ==
    /\ th_pc[1] = "returned"
    /\ th_pc[2] = "fields"
    /\ th_next[2] = 5
    /\ Len(th_buf[1]) > 100
    /\ ThreadArgs(1).transaction_id # <<>>

\* ------------------------------------------------------------------------
\* Width of the checksum register and of its text
\* ------------------------------------------------------------------------

\* The characters 0-9 and A-F.
UpperHexChars == (48..57) \cup (65..70)

\* The number a text of four upper-case hexadecimal digits stands for.
HexDigitValue(c) == IF c <= 57 THEN c - 48 ELSE c - 55

FourHexValue(text) ==
    HexDigitValue(text[1]) * 4096 + HexDigitValue(text[2]) * 256
    + HexDigitValue(text[3]) * 16 + HexDigitValue(text[4])

\* C18: the register is within 0..0xFFFF after every one of the 8 shift
\* steps of every byte (and at every other point of the call), and the
\* returned text is exactly 4 characters out of 0-9 and A-F that stand for
\* the register: zero-padded on the left below 0x1000, no lower-case
\* letter, no fifth digit.
C18_RegisterWidth ==
    /\ crc \in 0..65535
    /\ crc_pc = "done" =>
           /\ Len(crc_text) = 4
           /\ \A i \in 1..4 : crc_text[i] \in UpperHexChars
           /\ FourHexValue(crc_text) = crc
           /\ crc < 4096 => crc_text[1] = 48

\* A call whose result is below 0x1000 has returned its text.
C18_Witness ==
    /\ crc_pc = "done"
    /\ crc < 4096
    /\ Len(crc_text) = 4
    /\ crc_text[1] = 48
    /\ data # <<>>

\* ------------------------------------------------------------------------
\* Codes made up outside the generator
\* ------------------------------------------------------------------------

\* The request was answered with a code the handler made up itself: the
\* create call gave a transaction id and no code, and the follow-up lookup
\* gave no code either.
SynthesisCase ==
    /\ app_pc = "responded"
    /\ response.success
    /\ req.create.pix_code = <<>>
    /\ ~(~req.lookup.raises /\ req.lookup.success /\ req.lookup.pix_code # <<>>)

\* code holds "6304" at position i, followed by 4 characters that are the
\* checksum of everything up to and including that "6304".
ChecksumFieldAt(code, i) ==
    /\ SubSeq(code, i, i + 3) = CrcHeader
    /\ \A k \in (i + 4)..(i + 7) : code[k] \in UpperHexChars
    /\ SubSeq(code, i + 4, i + 7)
           = Format04X(CrcOf(EncodeUtf8(SubSeq(code, 1, i + 3))))

\* C19: a code the /generate-pix handler makes up itself is never without
\* checksum: it holds "6304" followed by 4 hex digits that are the
\* CRC16-CCITT of the whole string up to and including "6304".
C19_SynthesizedHasChecksum ==
    SynthesisCase =>
        \E i \in 1..(Len(response.pixCode) - 7) :
            ChecksumFieldAt(response.pixCode, i)

\* create_charge has returned a result that holds a code made up by
\* _create_pix_charge (the gateway sent qrCode = '' and a transaction id).
ChargeCodeMadeUp ==
    /\ charge_pc = "returned"
    /\ ~charge_result.raised
    /\ charge_req.order.kind = "json"
    /\ charge_req.order.data.status = "success"
    /\ charge_req.order.data.has_orderId
    /\ charge_req.charge.data.has_qrCode
    /\ charge_req.charge.data.qrCode = <<>>
    /\ charge_req.charge.data.transactionId # <<>>

\* create_charge has returned the result of one of its two fallbacks.
FallbackCodeMadeUp ==
    /\ charge_pc = "returned"
    /\ ~charge_result.raised
    /\ charge_req.order.kind \in {"unreachable", "not_ok"}

\* code ends with "6304" and the checksum of everything before the last 4
\* characters.
EndsWithChecksum(code) ==
    /\ Len(code) >= 8
    /\ SubSeq(code, Len(code) - 7, Len(code) - 4) = CrcHeader
    /\ SubSeq(code, Len(code) - 3, Len(code))
           = Format04X(CrcOf(EncodeUtf8(SubSeq(code, 1, Len(code) - 4))))

\* C20: every code NewPixAPI makes up itself, in _create_pix_charge for an
\* empty qrCode and in the two fallbacks of create_charge, ends with "6304"
\* followed by the CRC16-CCITT of everything before those 4 characters.
C20_FabricatedHasChecksum ==
    /\ ChargeCodeMadeUp => EndsWithChecksum(charge_result.api_response.qrCode)
    /\ FallbackCodeMadeUp => EndsWithChecksum(charge_result.api_response.pixCode)

\* ------------------------------------------------------------------------
\* The /generate-pix handler
\* ------------------------------------------------------------------------

\* The follow-up lookup came back with a code.
LookupGaveCode ==
    ~req.lookup.raises /\ req.lookup.success /\ req.lookup.pix_code # <<>>

\* The code of the response is the template of line 250 filled with the
\* transaction id of the create call, "6304" replaced by four characters.
TemplateCodeReturned ==
    /\ Len(response.pixCode)
           = Len(AuthenticHead) + Len(req.create.transaction_id)
             + Len(AuthenticTail)
    /\ SubSeq(response.pixCode, 1, Len(response.pixCode) - 4)
           = SubSeq(AuthenticHead \o req.create.transaction_id \o AuthenticTail,
                    1, Len(response.pixCode) - 4)

\* C21: the handler answers with a code made from the transaction id
\* template exactly when the create call succeeded with a transaction id and
\* no code and the follow-up lookup gave no code either (it failed, raised
\* or came back with an empty code); when the gateway gave a code in either
\* answer, the pixCode of the response is that code unchanged.
C21_SynthesisExactly ==
    app_pc = "responded" =>
        /\ ~response.success => response.pixCode = <<>>
        /\ response.success =>
               /\ TemplateCodeReturned
                      <=> (req.create.pix_code = <<>> /\ ~LookupGaveCode)
               /\ req.create.pix_code # <<>>
                      => response.pixCode = req.create.pix_code
               /\ (req.create.pix_code = <<>> /\ LookupGaveCode)
                      => response.pixCode = req.lookup.pix_code
               /\ req.create.success /\ req.create.transaction_id # <<>>

\* A request was answered with the code the follow-up lookup brought.
C21_Witness ==
    /\ app_pc = "responded"
    /\ response.success
    /\ req.create.pix_code = <<>>
    /\ LookupGaveCode
    /\ response.pixCode = GatewayPixCode

\* C22: every success response of /generate-pix carries a non-empty pixCode
\* and a non-empty pixQrCode, whether the code came with the create answer,
\* from the follow-up lookup, or was made from the template.
C22_SuccessCarriesCodeAndImage ==
    (app_pc = "responded" /\ response.success) =>
        /\ response.pixCode # <<>>
        /\ response.pixQrCode # <<>>

\* The handler rendered the image itself (lines 220-225 and 269-275).
RenderedLocally ==
    /\ app_pc = "responded"
    /\ response.success
    /\ \/ req.create.pix_code # <<>> /\ req.create.qr_code_image = <<>>
       \/ req.create.pix_code = <<>> /\ ~LookupGaveCode

\* Number of places of s where the sequence p begins.
Occurrences(p, s) ==
    Cardinality({i \in 1..(Len(s) - Len(p) + 1) :
                    SubSeq(s, i, i + Len(p) - 1) = p})

\* C23: when /generate-pix renders the image with generate_qr_code_image,
\* the pixQrCode of the response is the value generate_qr_code_image
\* returned: one "data:image/png;base64," prefix and then the image data.
C23_OneDataUrlPrefix ==
    RenderedLocally =>
        /\ response.pixQrCode = generate_qr_code_image(response.pixCode)
        /\ Occurrences(DataUrlPrefix, response.pixQrCode) = 1

\* C24: a POST with no customer_data in the session and no cpf in the body
\* is answered with status 400 and success=false, makes no CPF lookup and no
\* gateway call and leaves the session as it was, whatever the gateway
\* configuration is.
C24_NoCustomerNoCpf ==
    [][(app_pc = "idle" /\ app_pc' = "responded"
            /\ session = <<>> /\ req'.cpf = <<>>)
        => /\ response'.status = 400
           /\ ~response'.success
           /\ cpf_lookups' = <<>>
           /\ gateway_calls' = <<>>
           /\ session' = session]_vars

\* C25: within one request the gateway is called in a fixed order and at
\* most once each: create_pix_transaction only after the customer's name
\* and CPF are established, get_transaction_by_id only after a create call
\* that succeeded with a transaction id and no code, and no call is repeated.
C25_GatewayCallOrder ==
    app_pc = "responded" =>
        /\ gateway_calls \in
               {<<>>, <<"create_pix_transaction">>,
                <<"create_pix_transaction", "get_transaction_by_id">>}
        /\ gateway_calls # <<>> =>
               /\ req.secret_configured
               /\ session # <<>>
               /\ session[1].nome # <<>>
               /\ Len(CleanCpf(session[1].cpf)) = 11
        /\ Len(gateway_calls) = 2 <=>
               /\ req.secret_configured
               /\ session # <<>>
               /\ ~req.create.raises
               /\ req.create.success
               /\ req.create.transaction_id # <<>>
               /\ req.create.pix_code = <<>>

\* A request made both calls, the create call first.
C25_Witness ==
    /\ app_pc = "responded"
    /\ gateway_calls = <<"create_pix_transaction", "get_transaction_by_id">>
    /\ response.success

\* ------------------------------------------------------------------------
\* The CPF lookups of the routes
\* ------------------------------------------------------------------------

\* A request has just been served, by either route.
RequestServed == app_pc = "idle" /\ app_pc' # "idle"

\* The route served took up the CPF it was given: index_with_cpf always,
\* /generate-pix when the credentials are there and the session holds no
\* customer data.
CpfTakenUp ==
    \/ app_pc' = "rendered"
    \/ app_pc' = "responded" /\ session = <<>> /\ req'.cpf # <<>>

CallDone(op) == medius_pc = "done" /\ medius_call.op = op

\* The fields of the body a PIX code may stand in, in the order of their
\* priority: pix.qrcode, pix.pixCopyPaste, pixCopyPaste of the root,
\* qrCodePix, pix_copy_paste, copyPaste, code.
CodeCandidates ==
    LET body == medius_call.answer.body
    IN  <<IF body.pix_is_dict THEN body.pix_qrcode ELSE <<>>,
          IF body.pix_is_dict THEN body.pix_pixCopyPaste ELSE <<>>,
          body.pixCopyPaste, body.qrCodePix, body.pix_copy_paste,
          body.copyPaste, body.code>>

\* C27: on a 200 or 201 answer create_pix_transaction returns as pix_code
\* the first non-empty candidate in the order pix.qrcode, pix.pixCopyPaste,
\* pixCopyPaste of the root, qrCodePix, pix_copy_paste, copyPaste, code, and
\* '' when there is none; the result always holds the keys pix_code and
\* qr_code_image; a candidate of lower priority never replaces a non-empty
\* one of higher priority.
C27_FirstCandidateWins ==
    (CallDone("create_pix_transaction") /\ ~medius_result.raises) =>
        /\ medius_call.answer.status \in {200, 201}
        /\ {"pix_code", "qr_code_image"} \subseteq medius_result.keys
        /\ \A i \in 1..7 :
               (/\ Truthy(CodeCandidates[i])
                /\ \A j \in 1..(i - 1) : ~Truthy(CodeCandidates[j]))
               => medius_result.pix_code = CodeCandidates[i][1]
        /\ (\A i \in 1..7 : ~Truthy(CodeCandidates[i]))
               => medius_result.pix_code = <<>>

\* A body with a code in pix.qrcode and another in code: the first is
\* returned.
C27_Witness ==
    /\ CallDone("create_pix_transaction")
    /\ ~medius_result.raises
    /\ Truthy(CodeCandidates[1])
    /\ Truthy(CodeCandidates[7])
    /\ medius_result.pix_code = TextOf(1)

\* C28: create_pix_transaction sends no HTTP request when amount,
\* customer_name or customer_cpf is absent or falsy (an amount of 0 counts
\* as absent) and raises; every failure (missing fields, a status other than
\* 200 and 201, a network error, a body that does not decode) is signalled
\* by raising, never by a result with success = False.
C28_FailuresRaise ==
    CallDone("create_pix_transaction") =>
        LET payment == medius_call.data
            answer == medius_call.answer
            incomplete ==
                \/ payment.amount = <<>>
                \/ payment.amount = <<0>>
                \/ payment.customer_name \in {<<>>, << <<>> >>}
                \/ payment.customer_cpf \in {<<>>, << <<>> >>}
            failed ==
                \/ answer.kind = "network_error"
                \/ answer.status \notin {200, 201}
                \/ ~answer.json
        IN  /\ incomplete => (http_requests = <<>> /\ medius_result.raises)
            /\ ~incomplete => http_requests = <<PostTransactions>>
            /\ (incomplete \/ failed) <=> medius_result.raises
            /\ ~medius_result.raises => medius_result.success

\* A call with an amount of 0 raised and sent nothing.
C28_Witness ==
    /\ CallDone("create_pix_transaction")
    /\ medius_call.data.amount = <<0>>
    /\ Truthy(medius_call.data.customer_name)
    /\ Truthy(medius_call.data.customer_cpf)
    /\ medius_result.raises
    /\ http_requests = <<>>

\* What the /generate-pix handler has in hand after the call of
\* get_transaction_by_id.
AsLookupOutcome(result) ==
    [raises |-> result.raises, success |-> result.success,
     transaction_id |-> result.transaction_id,
     order_id |-> result.order_id, amount |-> result.amount,
     pix_code |-> result.pix_code, qr_code_image |-> result.qr_code_image]

\* A transaction the gateway created without sending a code.
CreatedWithoutCode ==
    [raises |-> FALSE, success |-> TRUE, transaction_id |-> MediusGatewayId,
     order_id |-> MediusGatewayId, amount |-> FixedAmount,
     pix_code |-> <<>>, qr_code_image |-> <<>>]

\* The answer to the lookup is no usable one.
LookupAnswerBad ==
    \/ medius_call.answer.kind = "network_error"
    \/ medius_call.answer.status # 200
    \/ ~medius_call.answer.json
    \/ ~medius_call.answer.body.amount_is_number

\* C29: get_transaction_by_id and check_transaction_status never raise: on
\* a status other than 200, a network error or a malformed body they return
\* success = False and an error text, so that a follow-up lookup that fails
\* inside /generate-pix never makes a 500 response of a created transaction.
C29_LookupsNeverRaise ==
    (CallDone("get_transaction_by_id")
        \/ CallDone("check_transaction_status")) =>
        /\ ~medius_result.raises
        /\ (\/ medius_call.answer.kind = "network_error"
            \/ medius_call.answer.status # 200
            \/ ~medius_call.answer.json)
               => (/\ ~medius_result.success
                   /\ medius_result.error # ""
                   /\ medius_result.keys = {"success", "error"})
        /\ (CallDone("get_transaction_by_id") /\ LookupAnswerBad) =>
               /\ ~medius_result.success
               /\ PayWithCustomer(
                      [nome |-> <<77, 65, 82, 73, 65>>,
                       cpf |-> FormatCpf(<<49, 50, 51, 52, 53, 54, 55, 56,
                                           57, 48, 57>>)],
                      CreatedWithoutCode,
                      AsLookupOutcome(medius_result)).response.status = 200

\* get_transaction_by_id could not reach the gateway and returned.
C29_Witness ==
    /\ CallDone("get_transaction_by_id")
    /\ medius_call.answer.kind = "network_error"
    /\ ~medius_result.raises
    /\ ~medius_result.success

\* ------------------------------------------------------------------------
\* The result of NewPixAPI.create_charge
\* ------------------------------------------------------------------------

\* The PIX code api_result holds: under qrCode when the gateway or
\* _create_pix_charge gave it, under pixCode when a fallback made it.
CodeHeld(api_result) ==
    IF api_result.has_qrCode THEN api_result.qrCode ELSE api_result.pixCode

\* C30: whenever create_charge returns success = True, pix_code of the
\* result is the PIX code the underlying api_result holds; on the two
\* fallback paths, where create_charge makes the code itself, it is not
\* empty.
C30_ResultCarriesCode ==
    (charge_pc = "returned" /\ ~charge_result.raised
        /\ charge_result.success) =>
        /\ charge_result.pix_code = CodeHeld(charge_result.api_response)
        /\ FallbackCodeMadeUp => charge_result.pix_code # <<>>

====
